---- MODULE Spec2Model ----
(***************************************************************************)
(* A model of the concurrency primitives of infra-golang-toolkit.          *)
(*                                                                         *)
(* Cache (src/cache/cache.go).  Every section of the code that runs under  *)
(* c.mu is one atomic step: all accesses to the map and to the item fields *)
(* are made under that lock, except the three reads of item.ready that     *)
(* follow an unlock (write, GetWithOpts, SetWithOpts); each of those reads *)
(* is a step of its own, so it may see the handle before or after a        *)
(* concurrent updateCacheItem replaces it.  Items and ready handles are    *)
(* heap objects with an identity: the n-th call of the run allocates item  *)
(* n, handle n and generator goroutine n (if it allocates them at all).    *)
(* Timestamps and durations are Go int64 values: sums wrap round (Add64),  *)
(* with the width scaled down to MaxInt.                                   *)
(*                                                                         *)
(* Worker pool (src/workerpool/workerpool.go).  Each statement of Submit,  *)
(* of the done callback, of Wait, Close and Errors that touches the queue  *)
(* channel, the WaitGroup, closed or errors is one step.  Close sets       *)
(* closed and closes the queue channel in one critical section: closed     *)
(* stands for both, and qclosed counts the executions of close(p.queue),   *)
(* the second of which would be a panic.  Submitting after Wait, Errors or *)
(* Close has been called is outside the contract and is not modelled,      *)
(* except in WaitSpec, where Wait runs on a goroutine of its own while     *)
(* Submit calls go on.  LiveSpec adds the scheduler's fairness.            *)
(*                                                                         *)
(* jwtutil.Validate (src/unnamed/part_008) and the Split functions of      *)
(* src/format/format.go are sequential: a call is drawn with its inputs in *)
(* the initial state and the function is computed on it as the code does.  *)
(* Strings are sequences of one-character strings.  jwt.ParseWithClaims    *)
(* is library code: what it does with a token string is an input.          *)
(*                                                                         *)
(* whois.Query (src/unnamed/part_002) is sequential too: opts.Attempts is  *)
(* drawn in the initial state and each call of queryHandler succeeds or    *)
(* fails as the network decides.                                           *)
(***************************************************************************)
EXTENDS Integers, Sequences, FiniteSets, TLC

\* ---------------------------------------------------------------- bounds
NumCallers == 2
MaxOps == 3
MaxTime == 2
MaxInt == 7
NumSubmitters == 2
MaxJobs == 3
Capacity == 2
MaxCalls == 2
MaxBody == 2
MaxLen == 3
MaxAttempts == 6

\* ------------------------------------------------------------- constants
Nil == 0
StartTime == 1
GCInterval == 1
DefaultAttempts == 5

Callers == 1..NumCallers
Ids == 1..MaxOps
Keys == {"a"}
LongTTL == MaxTime
\* <<TTL, Grace>> of a call, in clock ticks, and whether a Get's generator
\* fails.  The one-call-at-a-time specification also draws a TTL of one tick.
Durations == {<<0, 0>>, <<0, 1>>, <<1, 0>>, <<LongTTL, 0>>}
GetChoices == {<<0, 0, FALSE>>, <<0, 1, FALSE>>, <<LongTTL, 0, FALSE>>,
               <<0, 0, TRUE>>}
SetChoices == {<<0, 0>>, <<LongTTL, 0>>}
SeqGetChoices == GetChoices \cup {<<1, 0, FALSE>>}
SeqSetChoices == Durations
\* Durations at the far end of the int64 range (math.MaxInt64: "for ever").
WideGetChoices == {<<0, 0, FALSE>>, <<0, MaxInt, FALSE>>}
WideSetChoices == {<<0, 0>>, <<0, MaxInt>>, <<MaxInt, 0>>}
\* The keys of the runs that touch two keys, and of the direct sweeps.
TwoKeys == {"a", "b"}
TwoKeyGetChoices == {<<0, 0, FALSE>>}
TwoKeySetChoices == {<<0, 0>>}
SweepKeys == {"a", "b", "c"}

VARIABLES
    clock,       \* time.Now().UnixNano(), in ticks
    lastGcTime,  \* Cache.lastGcTime
    items,       \* Cache.items: key -> item id, Nil when the key is absent
    heap,        \* the Item objects, by id
    chans,       \* the Channel objects (Item.ready), by id
    gens,        \* the generator goroutines started by create/updateCacheItem
    pc,          \* each caller's position in GetWithOpts / SetWithOpts
    loc,         \* each caller's opts and local variables
    ops,         \* number of calls made so far
    panicked,    \* "no", or the runtime panic that ended the process
    res,         \* history: the result of each call that returned, by call
    plain,       \* history: per key, only long-TTL successful Gets were called
    purged,      \* what the last direct call of purgeExpiredItems returned
    queue,       \* WorkerPool.queue: the number of slots taken
    errors,      \* WorkerPool.errors
    closed,      \* WorkerPool.closed (and: the queue channel is closed)
    wg,          \* WorkerPool.wg: the WaitGroup counter
    closer,      \* WorkerPool.closer: "new" or "done"
    jobs,        \* the submitted jobs: position of Submit / done, by job
    njobs,       \* number of jobs submitted so far
    sub,         \* the job each submitter's Submit call is busy with, or 0
    count,       \* the shared counter the jobs of the tests increment
    main,        \* the caller of Wait / Errors / Close: position and history
    ret,         \* history: what the calls of Errors returned
    capacity,    \* cap(WorkerPool.queue): the concurrency New was given
    qclosed,     \* how many times close(p.queue) was executed
    doneLog,     \* history: the done callbacks invoked and returned, in order
    jwt,         \* one call of jwtutil.Validate: its opts, the token, the result
    split,       \* one call of a format.Split function: input and result
    query        \* one call of whois.Query: its opts, the attempts, the result

\* The variables no cache call touches.
poolVars == <<queue, errors, closed, wg, closer, jobs, njobs, sub, count, main,
              ret, capacity, qclosed>>
\* The variables of the calls of pure functions.
libVars == <<jwt, split, query>>
restVars == <<purged, poolVars, doneLog, libVars>>
cacheVars == <<clock, lastGcTime, items, heap, chans, gens, pc, loc, ops,
               panicked, res, plain, purged, libVars>>

vars == <<clock, lastGcTime, items, heap, chans, gens, pc, loc, ops, panicked,
          res, plain, restVars>>

\* ------------------------------------------------------------ data model
\* Item[T]{} as createCacheItem allocates it, before working and ready are set.
ZeroItem ==
    [data |-> 0, err |-> 0, working |-> FALSE, ready |-> Nil,
     created |-> 0, expires |-> 0, banned |-> 0]

\* &Channel{signal: make(chan bool)}: open, once not yet run.
NewChannel == [closed |-> FALSE, once |-> "new"]

NoGen ==
    [pc |-> "none", key |-> "", ttl |-> 0, grace |-> 0, data |-> 0, err |-> 0,
     item |-> Nil, rch |-> Nil, at |-> 0]

IdleLoc ==
    [op |-> "none", id |-> 0, key |-> "", ttl |-> 0, grace |-> 0, data |-> 0,
     err |-> 0, item |-> Nil, sdata |-> 0, serr |-> 0, now |-> 0, ch |-> Nil,
     gen |-> Nil]

NoRes ==
    [op |-> "none", key |-> "", ttl |-> 0, grace |-> 0, val |-> 0, now |-> 0,
     path |-> "", gen |-> Nil, ch |-> Nil, data |-> 0, err |-> 0, serr |-> 0]

\* The value the n-th call passes to Set.
SetValue(n) == 40 + n

Submitters == 1..NumSubmitters
JobIds == 1..MaxJobs
\* The job functions of the tests: one that returns an error (sync), one
\* that starts a goroutine which increments the counter and calls done(nil)
\* or done(err), and returns nil.  <<sync, fails>>.
JobKinds == {<<TRUE, TRUE>>, <<FALSE, FALSE>>, <<FALSE, TRUE>>}

\* by: the submitter whose Submit call has not yet returned, or 0.
\* calls: the job function calls done(err) itself, before it returns nil.
NoJob == [pc |-> "none", sync |-> FALSE, err |-> 0, by |-> 0, calls |-> FALSE]

\* The error of job n: fmt.Errorf("big error"), told apart by job.
JobError(n) == 70 + n

\* New(concurrency)
PoolNew(concurrency) ==
    /\ capacity = concurrency
    /\ qclosed = 0
    /\ doneLog = <<>>
    /\ queue = 0
    /\ errors = <<>>
    /\ closed = FALSE
    /\ wg = 0
    /\ closer = "new"
    /\ jobs = [j \in JobIds |-> NoJob]
    /\ njobs = 0
    /\ sub = [s \in Submitters |-> 0]
    /\ count = 0
    /\ main = [pc |-> "idle", call |-> "none", calls |-> 0, sealed |-> FALSE,
               waited |-> FALSE, others |-> 0, before |-> {}]
    /\ ret = [n |-> 0, errs |-> <<>>]

\* workerpool.New(Capacity)
PoolInit == PoolNew(Capacity)

\* No call of Validate or of a Split function is being made.
NoValidate == [pc |-> "none"]
NoSplit == [pc |-> "none"]
NoQuery == [pc |-> "none"]
LibIdle == jwt = NoValidate /\ split = NoSplit /\ query = NoQuery

Init ==
    /\ clock = StartTime
    /\ lastGcTime = StartTime
    /\ items = [k \in Keys |-> Nil]
    /\ heap = [i \in Ids |-> ZeroItem]
    /\ chans = [i \in Ids |-> NewChannel]
    /\ gens = [i \in Ids |-> NoGen]
    /\ pc = [c \in Callers |-> "idle"]
    /\ loc = [c \in Callers |-> IdleLoc]
    /\ ops = 0
    /\ panicked = "no"
    /\ res = [i \in Ids |-> NoRes]
    /\ plain = [k \in Keys |-> TRUE]
    /\ purged = -1
    /\ PoolInit
    /\ LibIdle

\* --------------------------------------------------------------- helpers
Alive == panicked = "no"

\* The values a generator returns.  The generator of Get number n returns the
\* fresh value n (rand.Int63() in the tests), with the error n when it fails;
\* the generator SetWithOpts builds returns (opts.Data, nil).
GenData(l) == IF l.op = "set" THEN l.data ELSE l.id
GenErr(l) == l.err

\* go func() { data, err := opts.Generator(); c.write(opts, data, err) }()
StartGen(l) ==
    [pc |-> "run", key |-> l.key, ttl |-> l.ttl, grace |-> l.grace,
     data |-> GenData(l), err |-> GenErr(l), item |-> Nil, rch |-> Nil,
     at |-> 0]

\* GetWithOpts lines 208-227: what the caller reads under the read lock.
Snapshot(k) ==
    IF items[k] = Nil
    THEN [exists |-> FALSE, item |-> Nil, data |-> 0, err |-> 0,
          working |-> FALSE, expires |-> 0, banned |-> 0]
    ELSE [exists |-> TRUE, item |-> items[k], data |-> heap[items[k]].data,
          err |-> heap[items[k]].err, working |-> heap[items[k]].working,
          expires |-> heap[items[k]].expires, banned |-> heap[items[k]].banned]

\* Mutant of IsFresh: the comparison turned round.
IsFreshInverted(now, expires) == now > expires

\* line 231: clean cache hit
IsFresh(now, expires) == now < expires

\* Mutant of InGrace: the instant of the ban still counts as grace.
InGraceInclusive(now, banned) == now <= banned

\* line 236: graceful cache hit
InGrace(now, banned) == now < banned

\* line 246: complete miss, new cache item
NeedsCreate(exists, working) == ~exists \/ ~working

\* Mutant of CreateRace: the re-check under the write lock is left out.
CreateRaceMissed(it) == FALSE

\* createCacheItem line 149: race, already exists
CreateRace(it) == it # Nil /\ heap[it].working

\* updateCacheItem line 183: race, already working
UpdateRace(it) == heap[it].working

\* Mutant of IsExpired: an item is kept at the instant of its ban.
IsExpiredLate(v, now) == ~v.working /\ v.banned > 0 /\ now > v.banned

\* Mutant of IsExpired: an item whose generator is running is swept too.
IsExpiredWorking(v, now) == v.banned > 0 /\ now >= v.banned

\* purgeExpiredItems line 127
IsExpired(v, now) == ~v.working /\ v.banned > 0 /\ now >= v.banned

\* purgeExpiredItems lines 123-130: the expired keys found by the scan.
expKeys(its, hp, now) ==
    {k \in DOMAIN its : its[k] # Nil /\ IsExpired(hp[its[k]], now)}

\* purgeExpiredItems lines 133-135: the map after the sweep.
purgeExpiredItems(its, hp, now) ==
    [k \in DOMAIN its |-> IF k \in expKeys(its, hp, now) THEN Nil ELSE its[k]]

\* Mutant of GcDue: every write sweeps, whenever the last sweep was.
GcDueAlways(now) == GCInterval > 0

\* write line 105: trigger garbage collection
GcDue(now) == GCInterval > 0 /\ now >= lastGcTime + GCInterval

\* int64 addition: the sum wraps round into -(MaxInt + 1) .. MaxInt.
Add64(a, b) == ((a + b + MaxInt + 1) % (2 * (MaxInt + 1))) - (MaxInt + 1)

\* Mutant of WriteItem: the data is not stored.
WriteItemNoData(v, g, now) ==
    [v EXCEPT !.err = g.err, !.working = FALSE, !.created = now,
              !.expires = Add64(now, g.ttl),
              !.banned = Add64(Add64(now, g.ttl), g.grace)]

\* Mutant of WriteItem: the timestamps are left for a later critical section.
WriteItemKeepTimes(v, g, now) ==
    [v EXCEPT !.data = g.data, !.err = g.err, !.working = FALSE]

\* write lines 95-100: the item after the generator's result is stored.
WriteItem(v, g, now) ==
    [v EXCEPT !.data = g.data, !.err = g.err, !.working = FALSE,
              !.created = now, !.expires = Add64(now, g.ttl),
              !.banned = Add64(Add64(now, g.ttl), g.grace)]

\* Mutant of RefreshItem: the refresh starts from an empty item, as a create
\* does.
RefreshItemCleared(v, h) == [ZeroItem EXCEPT !.working = TRUE, !.ready = h]

\* updateCacheItem lines 189-193: update working flag, open new channel.
RefreshItem(v, h) == [v EXCEPT !.working = TRUE, !.ready = h]

\* Mutant of Signalled: the receive does not wait for the close.
SignalledAlways(h) == TRUE

\* GetWithOpts line 251, SetWithOpts line 302: <-item.ready.signal returns
\* once the channel is closed.
Signalled(h) == chans[h].closed

\* A call returns: the caller is idle again and the result is recorded.
Return(c, l, path, data, err) ==
    /\ pc' = [pc EXCEPT ![c] = "idle"]
    /\ loc' = [loc EXCEPT ![c] = IdleLoc]
    /\ res' = [res EXCEPT ![l.id] =
                [op |-> l.op, key |-> l.key, ttl |-> l.ttl, grace |-> l.grace,
                 val |-> l.data, now |-> l.now, path |-> path, gen |-> l.gen,
                 ch |-> l.ch, data |-> data, err |-> err, serr |-> l.serr]]

\* Callers are interchangeable: a call is made by the first idle one.
FirstIdle(c) == pc[c] = "idle" /\ \A d \in Callers : d < c => pc[d] # "idle"

Live(g) == gens[g].pc \in {"run", "signal", "closing"}
Quiescent == (\A c \in Callers : pc[c] = "idle") /\ (\A g \in Ids : ~Live(g))

\* ------------------------------------------------------------ GetWithOpts
\* Lines 207-248: the snapshot under the read lock and the decision taken on
\* it.  A fresh hit, and a grace hit that sees working, return in this step.
CallGet(c, k, ttl, grace, fails) ==
    /\ Alive /\ FirstIdle(c) /\ ops < MaxOps
    /\ ops' = ops + 1
    /\ plain' = [plain EXCEPT ![k] = @ /\ ttl = LongTTL /\ ~fails]
    /\ LET s == Snapshot(k)
           l == [IdleLoc EXCEPT !.op = "get", !.id = ops + 1, !.key = k,
                                !.ttl = ttl, !.grace = grace,
                                !.err = IF fails THEN ops + 1 ELSE 0,
                                !.item = s.item, !.sdata = s.data,
                                !.serr = s.err, !.now = clock]
       IN  IF s.exists /\ s.err = 0 /\ IsFresh(clock, s.expires)
           THEN Return(c, l, "fresh", s.data, 0)
           ELSE IF s.exists /\ s.err = 0 /\ InGrace(clock, s.banned)
           THEN IF ~s.working
                THEN /\ pc' = [pc EXCEPT ![c] = "update"]
                     /\ loc' = [loc EXCEPT ![c] = l]
                     /\ res' = res
                ELSE Return(c, l, "grace", s.data, 0)
           ELSE /\ pc' = [pc EXCEPT ![c] =
                            IF NeedsCreate(s.exists, s.working)
                            THEN "create" ELSE "wait"]
                /\ loc' = [loc EXCEPT ![c] = l]
                /\ res' = res
    /\ UNCHANGED <<clock, lastGcTime, items, heap, chans, gens, panicked>>
    /\ UNCHANGED restVars

\* ------------------------------------------------------------ SetWithOpts
\* Lines 280-299: the existence check under the read lock.
CallSet(c, k, ttl, grace) ==
    /\ Alive /\ FirstIdle(c) /\ ops < MaxOps
    /\ ops' = ops + 1
    /\ plain' = [plain EXCEPT ![k] = FALSE]
    /\ pc' = [pc EXCEPT ![c] = IF items[k] # Nil THEN "update" ELSE "create"]
    /\ loc' = [loc EXCEPT ![c] =
                [IdleLoc EXCEPT !.op = "set", !.id = ops + 1, !.key = k,
                                !.ttl = ttl, !.grace = grace,
                                !.data = SetValue(ops + 1),
                                !.item = items[k], !.now = clock]]
    /\ UNCHANGED <<clock, lastGcTime, items, heap, chans, gens, panicked, res>>
    /\ UNCHANGED restVars

\* -------------------------------------------------------- createCacheItem
\* Lines 144-172, called from GetWithOpts line 247 and SetWithOpts line 298.
createCacheItem(c) ==
    /\ Alive /\ pc[c] = "create"
    /\ LET l == loc[c]
           it == items[l.key]
       IN  IF CreateRace(it)
           THEN /\ loc' = [loc EXCEPT ![c].item = it]
                /\ UNCHANGED <<items, heap, gens>>
           ELSE /\ heap' = [heap EXCEPT ![l.id] =
                              [ZeroItem EXCEPT !.working = TRUE, !.ready = l.id]]
                /\ items' = [items EXCEPT ![l.key] = l.id]
                /\ gens' = [gens EXCEPT ![l.id] = StartGen(l)]
                /\ loc' = [loc EXCEPT ![c].item = l.id, ![c].gen = l.id]
    /\ pc' = [pc EXCEPT ![c] = "wait"]
    /\ UNCHANGED <<clock, lastGcTime, chans, ops, panicked, res, plain>>
    /\ UNCHANGED restVars

\* -------------------------------------------------------- updateCacheItem
\* Lines 178-201, called from GetWithOpts line 238 (which then returns the
\* stale data, line 241) and from SetWithOpts line 296 (which then waits).
\* c.items[opts.Key] of a key the sweep removed is nil: item.working panics.
updateCacheItem(c) ==
    /\ Alive /\ pc[c] = "update"
    /\ LET l == loc[c]
           it == items[l.key]
       IN  IF it = Nil
           THEN /\ panicked' = "nil item in updateCacheItem"
                /\ pc' = [pc EXCEPT ![c] = "crashed"]
                /\ UNCHANGED <<heap, gens, loc, res>>
           ELSE IF UpdateRace(it)
           THEN /\ IF l.op = "get"
                   THEN Return(c, l, "grace", l.sdata, 0)
                   ELSE /\ pc' = [pc EXCEPT ![c] = "wait"]
                        /\ UNCHANGED <<loc, res>>
                /\ UNCHANGED <<heap, gens, panicked>>
           ELSE /\ heap' = [heap EXCEPT ![it] = RefreshItem(@, l.id)]
                /\ gens' = [gens EXCEPT ![l.id] = StartGen(l)]
                /\ IF l.op = "get"
                   THEN Return(c, [l EXCEPT !.gen = l.id], "grace", l.sdata, 0)
                   ELSE /\ pc' = [pc EXCEPT ![c] = "wait"]
                        /\ loc' = [loc EXCEPT ![c].gen = l.id]
                        /\ res' = res
                /\ UNCHANGED panicked
    /\ UNCHANGED <<clock, lastGcTime, items, chans, ops, plain>>
    /\ UNCHANGED restVars

\* ------------------------------------------------------- waiting on ready
\* GetWithOpts line 251 and SetWithOpts line 302, first half: item.ready is
\* read, outside the lock, to find the channel to receive from.
ReadReady(c) ==
    /\ Alive /\ pc[c] = "wait"
    /\ pc' = [pc EXCEPT ![c] = "recv"]
    /\ loc' = [loc EXCEPT ![c].ch = heap[loc[c].item].ready]
    /\ UNCHANGED <<clock, lastGcTime, items, heap, chans, gens, ops, panicked,
                   res, plain>>
    /\ UNCHANGED restVars

\* Second half: the receive returns once the channel is closed.  GetWithOpts
\* then reads item.data and item.err under the read lock (lines 254-260).
Receive(c) ==
    /\ Alive /\ pc[c] = "recv"
    /\ Signalled(loc[c].ch)
    /\ IF loc[c].op = "get"
       THEN Return(c, loc[c], "wait", heap[loc[c].item].data,
                   heap[loc[c].item].err)
       ELSE Return(c, loc[c], "wait", 0, 0)
    /\ UNCHANGED <<clock, lastGcTime, items, heap, chans, gens, ops, panicked,
                   plain>>
    /\ UNCHANGED restVars

\* ------------------------------------------------------------------ write
\* Lines 89-111: the generator has returned and its result is stored under
\* the write lock.  The sweep reads the clock again (line 122): gcNow, which
\* is the time of write's own reading or later.
write(g) ==
    /\ Alive /\ gens[g].pc = "run"
    /\ LET it == items[gens[g].key]
       IN  IF it = Nil
           THEN /\ panicked' = "nil item in write"
                /\ gens' = [gens EXCEPT ![g].pc = "crashed"]
                /\ UNCHANGED <<clock, lastGcTime, items, heap>>
           ELSE /\ heap' = [heap EXCEPT ![it] = WriteItem(@, gens[g], clock)]
                /\ gens' = [gens EXCEPT ![g].pc = "signal", ![g].item = it,
                                        ![g].at = clock]
                /\ IF GcDue(clock)
                   THEN \E gcNow \in clock..MaxTime :
                           /\ lastGcTime' = clock
                           /\ clock' = gcNow
                           /\ items' = purgeExpiredItems(items, heap', gcNow)
                   ELSE UNCHANGED <<clock, lastGcTime, items>>
                /\ UNCHANGED panicked
    /\ UNCHANGED <<chans, pc, loc, ops, res, plain>>
    /\ UNCHANGED restVars

\* Line 112: item.ready is read and its once is entered.  A once that has run
\* returns at once; a once that is running blocks the caller until it is done.
SignalOnce(g) ==
    /\ Alive /\ gens[g].pc = "signal"
    /\ LET r == heap[gens[g].item].ready
       IN  /\ chans[r].once # "running"
           /\ IF chans[r].once = "done"
              THEN /\ gens' = [gens EXCEPT ![g].pc = "done"]
                   /\ chans' = chans
              ELSE /\ gens' = [gens EXCEPT ![g].pc = "closing", ![g].rch = r]
                   /\ chans' = [chans EXCEPT ![r].once = "running"]
    /\ UNCHANGED <<clock, lastGcTime, items, heap, pc, loc, ops, panicked, res,
                   plain>>
    /\ UNCHANGED restVars

\* Line 113, inside the once: item.ready is read again and its signal channel
\* is closed; closing a closed channel panics.
SignalClose(g) ==
    /\ Alive /\ gens[g].pc = "closing"
    /\ LET r == heap[gens[g].item].ready
       IN  IF chans[r].closed
           THEN /\ panicked' = "close of closed channel"
                /\ gens' = [gens EXCEPT ![g].pc = "crashed"]
                /\ chans' = chans
           ELSE /\ chans' = [chans EXCEPT ![r].closed = TRUE,
                                          ![gens[g].rch].once = "done"]
                /\ gens' = [gens EXCEPT ![g].pc = "done"]
                /\ UNCHANGED panicked
    /\ UNCHANGED <<clock, lastGcTime, items, heap, pc, loc, ops, res, plain>>
    /\ UNCHANGED restVars

\* ------------------------------------------------------------------ clock
Tick ==
    /\ Alive /\ clock < MaxTime
    /\ clock' = clock + 1
    /\ UNCHANGED <<lastGcTime, items, heap, chans, gens, pc, loc, ops,
                   panicked, res, plain>>
    /\ UNCHANGED restVars

\* --------------------------------------------------------- specifications
Step ==
    \/ \E c \in Callers : createCacheItem(c)
    \/ \E c \in Callers : updateCacheItem(c)
    \/ \E c \in Callers : ReadReady(c)
    \/ \E c \in Callers : Receive(c)
    \/ \E g \in Ids : write(g)
    \/ \E g \in Ids : SignalOnce(g)
    \/ \E g \in Ids : SignalClose(g)
    \/ Tick

\* Any number of callers, any interleaving.
Next ==
    \/ \E c \in Callers, k \in Keys, o \in GetChoices :
          CallGet(c, k, o[1], o[2], o[3])
    \/ \E c \in Callers, k \in Keys, o \in SetChoices :
          CallSet(c, k, o[1], o[2])
    \/ Step

Spec == Init /\ [][Next]_vars

\* One call at a time: a call begins only when every earlier call has
\* returned and every generator it started has finished.
SeqNext ==
    \/ \E c \in Callers, k \in Keys, o \in SeqGetChoices :
          Quiescent /\ CallGet(c, k, o[1], o[2], o[3])
    \/ \E c \in Callers, k \in Keys, o \in SeqSetChoices :
          Quiescent /\ CallSet(c, k, o[1], o[2])
    \/ Step

SeqSpec == Init /\ [][SeqNext]_vars

\* One call at a time, with durations from the far end of the int64 range.
WideNext ==
    \/ \E c \in Callers, k \in Keys, o \in WideGetChoices :
          Quiescent /\ CallGet(c, k, o[1], o[2], o[3])
    \/ \E c \in Callers, k \in Keys, o \in WideSetChoices :
          Quiescent /\ CallSet(c, k, o[1], o[2])
    \/ Step

WideSpec == Init /\ [][WideNext]_vars

\* Any interleaving of calls for two keys.
TwoKeyInit ==
    /\ clock = StartTime
    /\ lastGcTime = StartTime
    /\ items = [k \in TwoKeys |-> Nil]
    /\ heap = [i \in Ids |-> ZeroItem]
    /\ chans = [i \in Ids |-> NewChannel]
    /\ gens = [i \in Ids |-> NoGen]
    /\ pc = [c \in Callers |-> "idle"]
    /\ loc = [c \in Callers |-> IdleLoc]
    /\ ops = 0
    /\ panicked = "no"
    /\ res = [i \in Ids |-> NoRes]
    /\ plain = [k \in TwoKeys |-> TRUE]
    /\ purged = -1
    /\ PoolInit
    /\ LibIdle

TwoKeyNext ==
    \/ \E c \in Callers, k \in TwoKeys, o \in TwoKeyGetChoices :
          CallGet(c, k, o[1], o[2], o[3])
    \/ \E c \in Callers, k \in TwoKeys, o \in TwoKeySetChoices :
          CallSet(c, k, o[1], o[2])
    \/ Step

TwoKeySpec == TwoKeyInit /\ [][TwoKeyNext]_vars

\* purgeExpiredItems called directly (as TestCachePurgeExpired calls it) on
\* a cache holding any items a run can leave behind: placeholders (working,
\* banned = 0), items under refresh (working, banned > 0) and written items
\* (not working, banned > 0).  Each key holds the item of its slot, if any.
SweepSlot == [a |-> 1, b |-> 2, c |-> 3]

SweepInit ==
    /\ clock \in StartTime..MaxTime
    /\ lastGcTime = StartTime
    /\ items \in [SweepKeys -> {Nil} \cup Ids]
    /\ \A k \in SweepKeys : items[k] \in {Nil, SweepSlot[k]}
    /\ heap \in [Ids -> {[ZeroItem EXCEPT !.working = w, !.banned = b,
                                           !.ready = Nil] :
                            w \in BOOLEAN, b \in 0..MaxTime}]
    /\ \A i \in Ids : heap[i].working \/ heap[i].banned > 0
    /\ \A i \in Ids : i > 3 => heap[i] = [ZeroItem EXCEPT !.working = TRUE]
    /\ chans = [i \in Ids |-> NewChannel]
    /\ gens = [i \in Ids |-> NoGen]
    /\ pc = [c \in Callers |-> "idle"]
    /\ loc = [c \in Callers |-> IdleLoc]
    /\ ops = 0
    /\ panicked = "no"
    /\ res = [i \in Ids |-> NoRes]
    /\ plain = [k \in SweepKeys |-> TRUE]
    /\ purged = -1
    /\ PoolInit
    /\ LibIdle

\* c.purgeExpiredItems(): lines 121-138.
Sweep ==
    /\ items' = purgeExpiredItems(items, heap, clock)
    /\ purged' = Cardinality(expKeys(items, heap, clock))
    /\ UNCHANGED <<clock, lastGcTime, heap, chans, gens, pc, loc, ops,
                   panicked, res, plain>>
    /\ UNCHANGED <<poolVars, doneLog, libVars>>

SweepNext ==
    \/ Sweep
    \/ Tick

SweepSpec == SweepInit /\ [][SweepNext]_vars

\* ------------------------------------------------------------ worker pool
\* Submitters are interchangeable: a job is submitted by the first idle one.
FirstFree(s) == sub[s] = 0 /\ \A t \in Submitters : t < s => sub[t] # 0

\* Mutant of SlotFree: the queue channel takes any number of slots.
SlotFreeAlways(q) == TRUE

\* line 39: the send on the buffered channel goes through
SlotFree(q) == q < capacity

\* Mutant of AllDone: wg.Wait() does not wait.
AllDoneAlways(n) == TRUE

\* line 85: wg.Wait() returns
AllDone(n) == n = 0

\* Mutant of ReturnsError: the error a job returns is dropped.
ReturnsErrorNever(j) == FALSE

\* lines 61-62: err := fn(done); err != nil.  A job function that passes its
\* error to done itself returns nil.
ReturnsError(j) == j.sync /\ ~j.calls /\ j.err # 0

\* Mutant of AfterDone: done looks at closed before it decrements.
AfterDoneUnlessClosed(n, isClosed) == IF isClosed THEN n ELSE n - 1

\* line 43: p.wg.Done(), whatever p.closed is (it is read after, line 46)
AfterDone(n, isClosed) == n - 1

\* Mutant of AppendError: the error is put in front of the list.
AppendErrorFirst(list, e) == <<e>> \o list

\* line 53: append(p.errors, err)
AppendError(list, e) == Append(list, e)

\* Mutant of OnceFresh: Do runs the function on every call.
OnceFreshAlways(o) == TRUE

\* line 72: p.closer.Do runs the function on the first call only
OnceFresh(o) == o = "new"

\* Mutant of SendToken: Submit goes on without leaving a token in the queue.
SendTokenLost(q) == q

\* line 39: p.queue <- struct{}{} puts one token into the buffer
SendToken(q) == q + 1

\* Mutant of AfterAdd: Submit does not count the job before it asks for a
\* slot.
AfterAddNothing(n) == n

\* line 38: p.wg.Add(1), the first statement of Submit
AfterAdd(n) == n + 1

\* Mutant of ReceiveToken: done leaves its token in the queue.
ReceiveTokenKept(q) == q

\* line 50: <-p.queue takes one token out of the buffer, when there is one
ReceiveToken(q) == IF q > 0 THEN q - 1 ELSE 0

\* Submit line 38: p.wg.Add(1)
Submit(s, sync, fails, calls) ==
    /\ FirstFree(s) /\ njobs < MaxJobs /\ ~main.sealed
    /\ njobs' = njobs + 1
    /\ wg' = AfterAdd(wg)
    /\ jobs' = [jobs EXCEPT ![njobs + 1] =
                  [pc |-> "send", sync |-> sync,
                   err |-> IF fails THEN JobError(njobs + 1) ELSE 0, by |-> s,
                   calls |-> calls]]
    /\ sub' = [sub EXCEPT ![s] = njobs + 1]
    /\ UNCHANGED <<queue, errors, closed, closer, count, main, ret>>
    /\ UNCHANGED <<capacity, qclosed>>
    /\ UNCHANGED cacheVars

\* Submit line 39: p.queue <- struct{}{}, then line 61: fn(done) is invoked.
AcquireSlot(j) ==
    /\ jobs[j].pc = "send"
    /\ ~closed /\ SlotFree(queue)
    /\ queue' = SendToken(queue)
    /\ jobs' = [jobs EXCEPT ![j].pc = "fn"]
    /\ UNCHANGED <<errors, closed, wg, closer, njobs, sub, count, main, ret>>
    /\ UNCHANGED <<capacity, qclosed>>
    /\ UNCHANGED cacheVars

\* Submit lines 61-64: fn runs.  A job that returns an error has done called
\* for it by Submit; a job that calls done itself does so before it returns;
\* a job that started a goroutine returns nil and Submit returns.
RunJob(j) ==
    /\ jobs[j].pc = "fn"
    /\ IF jobs[j].sync
       THEN /\ jobs' = [jobs EXCEPT ![j].pc =
                          IF jobs[j].calls \/ ReturnsError(jobs[j])
                          THEN "wgdone" ELSE "over"]
            /\ sub' = IF jobs[j].calls \/ ReturnsError(jobs[j])
                      THEN sub ELSE [sub EXCEPT ![jobs[j].by] = 0]
       ELSE /\ jobs' = [jobs EXCEPT ![j].pc = "work", ![j].by = 0]
            /\ sub' = [sub EXCEPT ![jobs[j].by] = 0]
    /\ UNCHANGED <<queue, errors, closed, wg, closer, njobs, count, main, ret>>
    /\ UNCHANGED <<capacity, qclosed>>
    /\ UNCHANGED cacheVars

\* The goroutine of the job: count++ under the test's mutex, then done(err).
JobWork(j) ==
    /\ jobs[j].pc = "work"
    /\ count' = count + 1
    /\ jobs' = [jobs EXCEPT ![j].pc = "wgdone"]
    /\ UNCHANGED <<queue, errors, closed, wg, closer, njobs, sub, main, ret>>
    /\ UNCHANGED <<capacity, qclosed>>
    /\ UNCHANGED cacheVars

\* done line 43: p.wg.Done()
DoneWg(j) ==
    /\ jobs[j].pc = "wgdone"
    /\ wg' = AfterDone(wg, closed)
    /\ jobs' = [jobs EXCEPT ![j].pc = "check"]
    /\ UNCHANGED <<queue, errors, closed, closer, njobs, sub, count, main, ret>>
    /\ UNCHANGED <<capacity, qclosed>>
    /\ UNCHANGED cacheVars

\* The done callback is over; when Submit called it, Submit returns; when
\* the job function called it, the function goes on.
DoneOver(j) ==
    /\ jobs' = [jobs EXCEPT ![j].pc = IF jobs[j].calls THEN "fnret" ELSE "over"]
    /\ sub' = IF jobs[j].sync /\ ~jobs[j].calls
              THEN [sub EXCEPT ![jobs[j].by] = 0] ELSE sub

\* Submit lines 61-64 for a job function that called done itself: it returns
\* nil, and Submit returns.
FnReturn(j) ==
    /\ jobs[j].pc = "fnret"
    /\ IF ReturnsError(jobs[j])
       THEN jobs' = [jobs EXCEPT ![j].pc = "wgdone"] /\ sub' = sub
       ELSE /\ jobs' = [jobs EXCEPT ![j].pc = "over"]
            /\ sub' = [sub EXCEPT ![jobs[j].by] = 0]
    /\ UNCHANGED <<queue, errors, closed, wg, closer, njobs, count, main, ret>>
    /\ UNCHANGED <<capacity, qclosed>>
    /\ UNCHANGED cacheVars

\* done lines 45-49: closed is read under the read lock.
DoneCheckClosed(j) ==
    /\ jobs[j].pc = "check"
    /\ IF closed
       THEN DoneOver(j)
       ELSE jobs' = [jobs EXCEPT ![j].pc = "release"] /\ sub' = sub
    /\ UNCHANGED <<queue, errors, closed, wg, closer, njobs, count, main, ret>>
    /\ UNCHANGED <<capacity, qclosed>>
    /\ UNCHANGED cacheVars

\* done lines 50-51: <-p.queue.  A closed channel hands out what is left in
\* its buffer and then zero values, without blocking.
DoneRelease(j) ==
    /\ jobs[j].pc = "release"
    /\ queue > 0 \/ closed
    /\ queue' = ReceiveToken(queue)
    /\ IF jobs[j].err # 0
       THEN jobs' = [jobs EXCEPT ![j].pc = "append"] /\ sub' = sub
       ELSE DoneOver(j)
    /\ UNCHANGED <<errors, closed, wg, closer, njobs, count, main, ret>>
    /\ UNCHANGED <<capacity, qclosed>>
    /\ UNCHANGED cacheVars

\* done lines 52-54: the error is appended under the write lock.
DoneAppend(j) ==
    /\ jobs[j].pc = "append"
    /\ errors' = AppendError(errors, jobs[j].err)
    /\ DoneOver(j)
    /\ UNCHANGED <<queue, closed, wg, closer, njobs, count, main, ret>>
    /\ UNCHANGED <<capacity, qclosed>>
    /\ UNCHANGED cacheVars

\* Wait(), Errors() or Close() is called, after the last Submit has returned.
CallMain(call) ==
    /\ main.pc = "idle" /\ main.calls < MaxCalls
    /\ \A s \in Submitters : sub[s] = 0
    /\ main' = [main EXCEPT !.pc = IF call = "Close" THEN "close" ELSE "wait",
                            !.call = call, !.calls = @ + 1, !.sealed = TRUE]
    /\ UNCHANGED <<queue, errors, closed, wg, closer, jobs, njobs, sub, count,
                   ret>>
    /\ UNCHANGED <<capacity, qclosed>>
    /\ UNCHANGED cacheVars

\* Wait line 85: p.wg.Wait()
Wait ==
    /\ main.pc = "wait"
    /\ AllDone(wg)
    /\ main' = [main EXCEPT !.pc = "close", !.waited = TRUE]
    /\ UNCHANGED <<queue, errors, closed, wg, closer, jobs, njobs, sub, count,
                   ret>>
    /\ UNCHANGED <<capacity, qclosed>>
    /\ UNCHANGED cacheVars

\* Close lines 72-77: the function runs under the Once and the write lock.
CloseBody ==
    IF OnceFresh(closer)
    THEN closed' = TRUE /\ qclosed' = qclosed + 1 /\ closer' = "done"
    ELSE UNCHANGED <<closed, qclosed, closer>>

\* Close lines 71-78 (from Wait line 86, or called directly).
Close ==
    /\ main.pc = "close"
    /\ CloseBody
    /\ main' = IF main.call = "Errors"
               THEN [main EXCEPT !.pc = "read"]
               ELSE [main EXCEPT !.pc = "idle", !.call = "none"]
    /\ UNCHANGED <<queue, errors, wg, jobs, njobs, sub, count, ret, capacity>>
    /\ UNCHANGED cacheVars

\* Close lines 71-78, called by another goroutine while the first caller is
\* in Wait, Errors or Close.
ConcurrentClose ==
    /\ main.pc # "idle" /\ main.calls < MaxCalls
    /\ CloseBody
    /\ main' = [main EXCEPT !.calls = @ + 1, !.others = @ + 1]
    /\ UNCHANGED <<queue, errors, wg, jobs, njobs, sub, count, ret, capacity>>
    /\ UNCHANGED cacheVars

\* Errors line 95: return p.errors
Errors ==
    /\ main.pc = "read"
    /\ ret' = [n |-> ret.n + 1, errs |-> errors]
    /\ main' = [main EXCEPT !.pc = "idle", !.call = "none"]
    /\ UNCHANGED <<queue, errors, closed, wg, closer, jobs, njobs, sub, count>>
    /\ UNCHANGED <<capacity, qclosed>>
    /\ UNCHANGED cacheVars

\* The steps inside the done callback (lines 43-55).
InDone == {"wgdone", "check", "release", "append"}

\* History: a done callback that was handed an error is invoked, or returns.
LogStep ==
    LET inv == {j \in JobIds : /\ jobs'[j].err # 0
                               /\ jobs[j].pc \notin InDone
                               /\ jobs'[j].pc \in InDone}
        out == {j \in JobIds : /\ jobs'[j].err # 0
                               /\ jobs[j].pc \in InDone
                               /\ jobs'[j].pc \notin InDone}
    IN  doneLog' =
            IF inv # {} THEN Append(doneLog, <<"inv", CHOOSE j \in inv : TRUE>>)
            ELSE IF out # {}
                 THEN Append(doneLog, <<"ret", CHOOSE j \in out : TRUE>>)
                 ELSE doneLog

PoolNext ==
    \/ (\E s \in Submitters, k \in JobKinds : Submit(s, k[1], k[2], FALSE)) /\ UNCHANGED doneLog
    \/ (\E j \in JobIds : AcquireSlot(j)) /\ UNCHANGED doneLog
    \/ (\E j \in JobIds : RunJob(j)) /\ UNCHANGED doneLog
    \/ (\E j \in JobIds : JobWork(j)) /\ UNCHANGED doneLog
    \/ (\E j \in JobIds : DoneWg(j)) /\ UNCHANGED doneLog
    \/ (\E j \in JobIds : DoneCheckClosed(j)) /\ UNCHANGED doneLog
    \/ (\E j \in JobIds : DoneRelease(j)) /\ UNCHANGED doneLog
    \/ (\E j \in JobIds : DoneAppend(j)) /\ UNCHANGED doneLog
    \/ (\E call \in {"Wait", "Errors", "Close"} : CallMain(call)) /\ UNCHANGED doneLog
    \/ (Wait) /\ UNCHANGED doneLog
    \/ (Close) /\ UNCHANGED doneLog
    \/ (Errors) /\ UNCHANGED doneLog

PoolSpec == Init /\ [][PoolNext]_vars

\* The pool with the history of the done callbacks kept: jobs that fail, and
\* a caller that asks for the errors.
FailingKinds == {<<TRUE, TRUE>>, <<FALSE, TRUE>>}

OrderNext ==
    \/ (\E s \in Submitters, k \in FailingKinds : Submit(s, k[1], k[2], FALSE)) /\ LogStep
    \/ (\E j \in JobIds : AcquireSlot(j)) /\ LogStep
    \/ (\E j \in JobIds : RunJob(j)) /\ LogStep
    \/ (\E j \in JobIds : JobWork(j)) /\ LogStep
    \/ (\E j \in JobIds : DoneWg(j)) /\ LogStep
    \/ (\E j \in JobIds : DoneCheckClosed(j)) /\ LogStep
    \/ (\E j \in JobIds : DoneRelease(j)) /\ LogStep
    \/ (\E j \in JobIds : DoneAppend(j)) /\ LogStep
    \/ CallMain("Errors") /\ LogStep
    \/ (Wait) /\ LogStep
    \/ (Close) /\ LogStep
    \/ (Errors) /\ LogStep

OrderSpec == Init /\ [][OrderNext]_vars

\* The pool with the two forms of a job that fails on the goroutine of
\* Submit: fn returns the error, or fn calls done(err) and returns nil.
SyncForms == {FALSE, TRUE}

SyncNext ==
    \/ (\E s \in Submitters, calls \in SyncForms : Submit(s, TRUE, TRUE, calls)) /\ UNCHANGED doneLog
    \/ (\E j \in JobIds : AcquireSlot(j)) /\ UNCHANGED doneLog
    \/ (\E j \in JobIds : RunJob(j)) /\ UNCHANGED doneLog
    \/ (\E j \in JobIds : DoneWg(j)) /\ UNCHANGED doneLog
    \/ (\E j \in JobIds : DoneCheckClosed(j)) /\ UNCHANGED doneLog
    \/ (\E j \in JobIds : DoneRelease(j)) /\ UNCHANGED doneLog
    \/ (\E j \in JobIds : DoneAppend(j)) /\ UNCHANGED doneLog
    \/ (\E call \in {"Wait", "Errors", "Close"} : CallMain(call)) /\ UNCHANGED doneLog
    \/ (Wait) /\ UNCHANGED doneLog
    \/ (Close) /\ UNCHANGED doneLog
    \/ (Errors) /\ UNCHANGED doneLog
    \/ (\E j \in JobIds : FnReturn(j)) /\ UNCHANGED doneLog

SyncSpec == Init /\ [][SyncNext]_vars

\* The pool with a second goroutine that calls Close, and jobs on
\* goroutines of their own.
AsyncKinds == {<<FALSE, FALSE>>, <<FALSE, TRUE>>}

CloseNext ==
    \/ (\E s \in Submitters, k \in AsyncKinds : Submit(s, k[1], k[2], FALSE)) /\ UNCHANGED doneLog
    \/ (\E j \in JobIds : AcquireSlot(j)) /\ UNCHANGED doneLog
    \/ (\E j \in JobIds : RunJob(j)) /\ UNCHANGED doneLog
    \/ (\E j \in JobIds : JobWork(j)) /\ UNCHANGED doneLog
    \/ (\E j \in JobIds : DoneWg(j)) /\ UNCHANGED doneLog
    \/ (\E j \in JobIds : DoneCheckClosed(j)) /\ UNCHANGED doneLog
    \/ (\E j \in JobIds : DoneRelease(j)) /\ UNCHANGED doneLog
    \/ (\E j \in JobIds : DoneAppend(j)) /\ UNCHANGED doneLog
    \/ (\E call \in {"Wait", "Errors", "Close"} : CallMain(call)) /\ UNCHANGED doneLog
    \/ (Wait) /\ UNCHANGED doneLog
    \/ (Close) /\ UNCHANGED doneLog
    \/ (Errors) /\ UNCHANGED doneLog
    \/ (ConcurrentClose) /\ UNCHANGED doneLog

CloseSpec == Init /\ [][CloseNext]_vars

\* workerpool.New(1), as in TestPoolSingle.
SingleInit ==
    /\ clock = StartTime
    /\ lastGcTime = StartTime
    /\ items = [k \in Keys |-> Nil]
    /\ heap = [i \in Ids |-> ZeroItem]
    /\ chans = [i \in Ids |-> NewChannel]
    /\ gens = [i \in Ids |-> NoGen]
    /\ pc = [c \in Callers |-> "idle"]
    /\ loc = [c \in Callers |-> IdleLoc]
    /\ ops = 0
    /\ panicked = "no"
    /\ res = [i \in Ids |-> NoRes]
    /\ plain = [k \in Keys |-> TRUE]
    /\ purged = -1
    /\ PoolNew(1)
    /\ LibIdle

SingleSpec == SingleInit /\ [][PoolNext]_vars

\* ---------------------------------------------------------- pure functions
\* The state of the cache after New, and of a pool that is not used.
CacheNew ==
    /\ clock = StartTime
    /\ lastGcTime = StartTime
    /\ items = [k \in Keys |-> Nil]
    /\ heap = [i \in Ids |-> ZeroItem]
    /\ chans = [i \in Ids |-> NewChannel]
    /\ gens = [i \in Ids |-> NoGen]
    /\ pc = [c \in Callers |-> "idle"]
    /\ loc = [c \in Callers |-> IdleLoc]
    /\ ops = 0
    /\ panicked = "no"
    /\ res = [i \in Ids |-> NoRes]
    /\ plain = [k \in Keys |-> TRUE]
    /\ purged = -1
    /\ PoolInit

\* What a call of a pure function leaves alone.
stateVars == <<clock, lastGcTime, items, heap, chans, gens, pc, loc, ops,
               panicked, res, plain, purged, poolVars, doneLog>>

\* All the strings of at most n characters of the alphabet.
StringsUpTo(alphabet, n) == UNION {[1..k -> alphabet] : k \in 0..n}

\* ---------------------------------------------------------------- jwtutil
\* var jwtAuthzPrefix = "Bearer "
jwtAuthzPrefix == <<"B", "e", "a", "r", "e", "r", " ">>
jwtAuthzPrefixLen == Len(jwtAuthzPrefix)

\* The upper-case letters of the strings drawn, and their lower case.
UpperCase == <<"B", "E", "A", "R">>
LowerCase == <<"b", "e", "a", "r">>

\* The case folding strings.EqualFold applies to a character.
FoldCase(c) ==
    IF \E i \in 1..Len(UpperCase) : UpperCase[i] = c
    THEN LowerCase[CHOOSE i \in 1..Len(UpperCase) : UpperCase[i] = c]
    ELSE c

\* strings.EqualFold(s, t)
EqualFold(s, t) ==
    Len(s) = Len(t) /\ \A i \in 1..Len(s) : FoldCase(s[i]) = FoldCase(t[i])

\* The start of the Authz values drawn: "", "Bearer", "Bearer ", "bearer ",
\* "BEARER ", "Basic ", "Bearer." and " Bearer ".
Schemes ==
    {<<>>,
     <<"B", "e", "a", "r", "e", "r">>,
     <<"B", "e", "a", "r", "e", "r", " ">>,
     <<"b", "e", "a", "r", "e", "r", " ">>,
     <<"B", "E", "A", "R", "E", "R", " ">>,
     <<"B", "a", "s", "i", "c", " ">>,
     <<"B", "e", "a", "r", "e", "r", ".">>,
     <<" ", "B", "e", "a", "r", "e", "r", " ">>}

\* What follows: a token string of at most MaxBody characters.
Bodies == StringsUpTo({"x", "."}, MaxBody)

\* What jwt.ParseWithClaims makes of the token string: an error before the
\* key is asked for, an error after, a token that is not valid, a valid one.
ParseCases == {"malformed", "unverified", "invalid", "ok"}

\* <<opts.AssertSubject, the sub claim>>
SubjectCases == {<<"", "">>, <<"s", "s">>, <<"s", "o">>, <<"s", "">>}

\* opts.AssertAudience, and the aud claim of the token.
AssertAudiences ==
    {<<>>, <<"test">>, <<"test", "kake">>, <<"test", "missing">>}
AudienceClaims ==
    {<<>>, <<"test">>, <<"kake", "test">>, <<"test", "kake", "prod">>}

\* time.Now() during the call, and a claim that is not set.
NowTime == 5
NoTime == 0

\* opts.MaxExpiresAt, MinIssuedAt, MinNotBefore and the exp, iat, nbf claims.
TimeCases ==
    {[maxExp |-> 0, exp |-> 9, minIat |-> 0, iat |-> NoTime,
      minNbf |-> 0, nbf |-> NoTime],
     [maxExp |-> 2, exp |-> 6, minIat |-> 2, iat |-> 4,
      minNbf |-> 2, nbf |-> 4],
     [maxExp |-> 2, exp |-> 9, minIat |-> 0, iat |-> NoTime,
      minNbf |-> 0, nbf |-> NoTime],
     [maxExp |-> 2, exp |-> NoTime, minIat |-> 0, iat |-> NoTime,
      minNbf |-> 0, nbf |-> NoTime],
     [maxExp |-> 0, exp |-> 6, minIat |-> 2, iat |-> 1,
      minNbf |-> 0, nbf |-> NoTime],
     [maxExp |-> 0, exp |-> 6, minIat |-> 0, iat |-> NoTime,
      minNbf |-> 2, nbf |-> 1]}

\* Validate(opts) is called: the opts, and the token the Authz value carries.
JwtInit ==
    /\ CacheNew
    /\ split = NoSplit
    /\ query = NoQuery
    /\ \E s \in Schemes, b \in Bodies, p \in ParseCases, sc \in SubjectCases,
          aa \in AssertAudiences, ac \in AudienceClaims, tc \in TimeCases :
          jwt = [pc |-> "call", authz |-> s \o b, parse |-> p,
                 assertSub |-> sc[1], sub |-> sc[2],
                 assertAud |-> aa, aud |-> ac, time |-> tc,
                 parsed |-> FALSE, keyCalls |-> 0, audRead |-> FALSE,
                 token |-> FALSE, err |-> ""]

\* Mutant of TooShort: a value that is just the prefix gets through.
TooShortStrict(authz) == Len(authz) < jwtAuthzPrefixLen

\* line 44: len(opts.Authz) <= jwtAuthzPrefixLen
TooShort(authz) == Len(authz) <= jwtAuthzPrefixLen

\* line 44: the Authz value is not "Bearer <token>"
SchemeRejected(authz) ==
    \/ TooShort(authz)
    \/ ~EqualFold(SubSeq(authz, 1, jwtAuthzPrefixLen), jwtAuthzPrefix)

\* slices.Contains(list, e)
Contains(list, e) == \E i \in 1..Len(list) : list[i] = e

\* Mutant of ContainsAll: one expected audience in the claim is enough.
ContainsAny(claim, expected) ==
    \E i \in 1..Len(expected) : Contains(claim, expected[i])

\* lines 88-92: no expected audience is missing from the claim
ContainsAll(claim, expected) ==
    \A i \in 1..Len(expected) : Contains(claim, expected[i])

\* lines 65-74
SubjectOk(o) ==
    o.assertSub = "" \/ ~(o.sub = "" \/ o.sub # o.assertSub)

\* lines 77-93
AudienceOk(o) ==
    \/ ~(Len(o.assertAud) > 0)
    \/ ~(Len(o.aud) = 0) /\ ContainsAll(o.aud, o.assertAud)

\* lines 96-105: expirationClaim.After(time.Now().Add(opts.MaxExpiresAt))
ExpiresOk(t) ==
    ~(t.maxExp > 0) \/ ~(t.exp = NoTime \/ t.exp > NowTime + t.maxExp)

\* lines 108-117: issuedAtClaim.Add(opts.MinIssuedAt).Before(time.Now())
IssuedOk(t) ==
    ~(t.minIat > 0) \/ ~(t.iat = NoTime \/ t.iat + t.minIat < NowTime)

\* lines 120-129: notBeforeClaim.Add(opts.MinNotBefore).Before(time.Now())
NotBeforeOk(t) ==
    ~(t.minNbf > 0) \/ ~(t.nbf = NoTime \/ t.nbf + t.minNbf < NowTime)

\* lines 65-131: the error of the first assertion that fails, "" for nil.
ClaimsError(o) ==
    IF ~SubjectOk(o) THEN "invalid token sub"
    ELSE IF ~AudienceOk(o) THEN "invalid token aud"
    ELSE IF ~ExpiresOk(o.time) THEN "invalid token exp"
    ELSE IF ~IssuedOk(o.time) THEN "invalid token iat"
    ELSE IF ~NotBeforeOk(o.time) THEN "invalid token nbf"
    ELSE ""

\* Validate lines 43-47: the authorization scheme.
ValidateScheme ==
    /\ jwt.pc = "call"
    /\ jwt' = IF SchemeRejected(jwt.authz)
              THEN [jwt EXCEPT !.pc = "done",
                               !.err = "invalid authorization scheme"]
              ELSE [jwt EXCEPT !.pc = "parse"]
    /\ UNCHANGED <<stateVars, split, query>>

\* Validate lines 49-57: jwt.ParseWithClaims(opts.Authz[jwtAuthzPrefixLen:],
\* ..., opts.KeyFunc) and token.Valid.
ValidateParse ==
    /\ jwt.pc = "parse"
    /\ jwt' =
         [jwt EXCEPT
            !.parsed = TRUE,
            !.keyCalls = IF jwt.parse = "malformed" THEN @ ELSE @ + 1,
            !.pc = IF jwt.parse = "ok" THEN "claims" ELSE "done",
            !.err = CASE jwt.parse = "malformed" -> "token is malformed"
                      [] jwt.parse = "unverified" -> "signature is invalid"
                      [] jwt.parse = "invalid" -> "invalid token"
                      [] OTHER -> ""]
    /\ UNCHANGED <<stateVars, split, query>>

\* Validate lines 59-131: the assertions on the claims, and the return.
ValidateClaims ==
    /\ jwt.pc = "claims"
    /\ jwt' = [jwt EXCEPT
                 !.pc = "done",
                 !.audRead = SubjectOk(jwt) /\ Len(jwt.assertAud) > 0,
                 !.err = ClaimsError(jwt),
                 !.token = ClaimsError(jwt) = ""]
    /\ UNCHANGED <<stateVars, split, query>>

JwtNext ==
    \/ ValidateScheme
    \/ ValidateParse
    \/ ValidateClaims

JwtSpec == JwtInit /\ [][JwtNext]_vars

\* ----------------------------------------------------------------- format
\* The characters of the inputs drawn: a letter, two digits, a sign, and the
\* delimiters comma, space and tab.
FormatChars == {"a", "1", "2", "-", ",", " ", "\t"}

\* \s of the regular expression: [\t\n\f\r ]
WhiteSpace == {" ", "\t", "\n", "\f", "\r"}

\* [,\s] of the regular expression
Delimiters == {","} \cup WhiteSpace

\* A call of a Split function is about to be made on an input string.
FormatInit ==
    /\ CacheNew
    /\ jwt = NoValidate
    /\ query = NoQuery
    /\ \E input \in StringsUpTo(FormatChars, MaxLen) :
          split = [pc |-> "call", fn |-> "none", input |-> input,
                   isNil |-> TRUE, list |-> <<>>, err |-> ""]

\* splitStringRe.Split(input, -1), scanning from character i: the pieces
\* between the matches of \s*[,\s]+\s*, which are the longest runs of
\* delimiters; a match at the start or at the end leaves an empty piece, and
\* the empty input gives one empty piece.
RECURSIVE SplitFrom(_, _, _, _, _)
SplitFrom(input, i, piece, pieces, inMatch) ==
    IF i > Len(input) THEN Append(pieces, piece)
    ELSE IF input[i] \in Delimiters
         THEN IF inMatch
              THEN SplitFrom(input, i + 1, piece, pieces, TRUE)
              ELSE SplitFrom(input, i + 1, <<>>, Append(pieces, piece), TRUE)
         ELSE SplitFrom(input, i + 1, Append(piece, input[i]), pieces, FALSE)

\* line 20: splitStringRe.Split(input, -1)
RegexSplit(input) == SplitFrom(input, 1, <<>>, <<>>, FALSE)

\* Mutant of NonEmpty: the empty pieces are kept.
NonEmptyOrNot(s) == TRUE

\* line 23: s != ""
NonEmpty(s) == s # <<>>

\* lines 22-26: the loop that appends the pieces that are not empty
RECURSIVE KeepFrom(_, _, _)
KeepFrom(pieces, i, result) ==
    IF i > Len(pieces) THEN result
    ELSE KeepFrom(pieces, i + 1,
                  IF NonEmpty(pieces[i]) THEN Append(result, pieces[i])
                  ELSE result)

\* SplitStringByDelimiter(input), lines 18-29: result starts as []string{}
StringsByDelimiter(input) == KeepFrom(RegexSplit(input), 1, <<>>)

\* The decimal digits, "0" first.
DigitChars == <<"0", "1", "2", "3", "4", "5", "6", "7", "8", "9">>
IsDigit(c) == \E d \in 1..Len(DigitChars) : DigitChars[d] = c
DigitValue(c) == (CHOOSE d \in 1..Len(DigitChars) : DigitChars[d] = c) - 1

\* strconv.Atoi on the digits from position i on, n the number read so far:
\* a character that is no digit is a syntax error, a number beyond the
\* range of int a range error.
RECURSIVE AtoiFrom(_, _, _, _)
AtoiFrom(s, i, n, negative) ==
    IF i > Len(s)
    THEN [val |-> IF negative THEN 0 - n ELSE n, err |-> ""]
    ELSE IF ~IsDigit(s[i]) THEN [val |-> 0, err |-> "invalid syntax"]
    ELSE LET m == n * 10 + DigitValue(s[i])
         IN  IF m > (IF negative THEN MaxInt + 1 ELSE MaxInt)
             THEN [val |-> 0, err |-> "value out of range"]
             ELSE AtoiFrom(s, i + 1, m, negative)

\* line 40: strconv.Atoi(s), with int scaled down to -MaxInt-1 .. MaxInt
Atoi(s) ==
    IF Len(s) = 0 THEN [val |-> 0, err |-> "invalid syntax"]
    ELSE IF s[1] \in {"-", "+"}
         THEN IF Len(s) = 1 THEN [val |-> 0, err |-> "invalid syntax"]
              ELSE AtoiFrom(s, 2, 0, s[1] = "-")
         ELSE AtoiFrom(s, 1, 0, FALSE)

\* Mutant of Failed: the numbers converted so far are returned with the error.
FailedPartial(result, err) == [isNil |-> FALSE, list |-> result, err |-> err]

\* lines 41-43: return nil, err
Failed(result, err) == [isNil |-> TRUE, list |-> <<>>, err |-> err]

\* lines 39-46: the loop that converts the tokens
RECURSIVE ConvertFrom(_, _, _)
ConvertFrom(tokens, i, result) ==
    IF i > Len(tokens) THEN [isNil |-> FALSE, list |-> result, err |-> ""]
    ELSE LET n == Atoi(tokens[i])
         IN  IF n.err # "" THEN Failed(result, n.err)
             ELSE ConvertFrom(tokens, i + 1, Append(result, n.val))

\* SplitIntsByDelimiter(input), lines 35-49: result starts as []int{}
IntsByDelimiter(input) == ConvertFrom(StringsByDelimiter(input), 1, <<>>)

\* A call of SplitStringByDelimiter.
SplitStringByDelimiter ==
    /\ split.pc = "call"
    /\ split' = [split EXCEPT !.pc = "done", !.fn = "strings",
                              !.isNil = FALSE,
                              !.list = StringsByDelimiter(split.input)]
    /\ UNCHANGED <<stateVars, jwt, query>>

\* A call of SplitIntsByDelimiter.
SplitIntsByDelimiter ==
    /\ split.pc = "call"
    /\ LET r == IntsByDelimiter(split.input)
       IN  split' = [split EXCEPT !.pc = "done", !.fn = "ints",
                                  !.isNil = r.isNil, !.list = r.list,
                                  !.err = r.err]
    /\ UNCHANGED <<stateVars, jwt, query>>

FormatNext ==
    \/ SplitStringByDelimiter
    \/ SplitIntsByDelimiter

FormatSpec == FormatInit /\ [][FormatNext]_vars

\* ------------------------------------------------------------- whois.Query
\* The values of opts.Attempts a caller can pass: an int, negative ones too.
AttemptsCases == -1..MaxAttempts

\* What queryHandler returns on its n-th call: a response, or the error of
\* the dial, the write or the read.
Response(n) == 90 + n
HandlerError(n) == 80 + n

QueryInit ==
    /\ CacheNew
    /\ jwt = NoValidate
    /\ split = NoSplit
    /\ \E a \in AttemptsCases :
          query = [pc |-> "call", given |-> a, attempts |-> a, attempt |-> 0,
                   made |-> 0, failed |-> 0, whois |-> 0, err |-> 0]

\* Query lines 129-131: opts.Attempts == 0 becomes 5
AttemptsOrDefault(a) == IF a = 0 THEN DefaultAttempts ELSE a

\* Mutant of Retries: the threshold itself still retries.
RetriesInclusive(err, attempt, attempts) == err # 0 /\ attempt <= attempts

\* queryLoop lines 110-111: retry on failure within attempt threshold
Retries(err, attempt, attempts) == err # 0 /\ attempt < attempts

\* Query lines 120-134: the defaults are filled in and queryLoop(opts, 1) is
\* called.
Query ==
    /\ query.pc = "call"
    /\ query' = [query EXCEPT !.pc = "handler",
                              !.attempts = AttemptsOrDefault(query.given),
                              !.attempt = 1]
    /\ UNCHANGED <<stateVars, jwt, split>>

\* queryLoop line 107: queryHandler(opts) connects, writes the query and
\* reads the response under the deadline; it returns a response or an error.
queryHandler(ok) ==
    /\ query.pc = "handler"
    /\ query' = [query EXCEPT
                    !.pc = "loop", !.made = @ + 1,
                    !.failed = IF ok THEN @ ELSE @ + 1,
                    !.whois = IF ok THEN Response(query.made + 1) ELSE 0,
                    !.err = IF ok THEN 0 ELSE HandlerError(query.made + 1)]
    /\ UNCHANGED <<stateVars, jwt, split>>

\* queryLoop lines 109-117: sleep and call queryLoop(opts, attempt + 1), or
\* return what the handler returned.
queryLoop ==
    /\ query.pc = "loop"
    /\ IF Retries(query.err, query.attempt, query.attempts)
       THEN query' = [query EXCEPT !.pc = "handler", !.attempt = @ + 1]
       ELSE query' = [query EXCEPT !.pc = "done"]
    /\ UNCHANGED <<stateVars, jwt, split>>

QueryNext ==
    \/ Query
    \/ \E ok \in BOOLEAN : queryHandler(ok)
    \/ queryLoop

\* Each step of Query returns: the handler works under a deadline and the
\* sleep is finite.
QuerySpec == QueryInit /\ [][QueryNext]_vars /\ WF_vars(QueryNext)

\* ------------------------------------------------- Wait on another goroutine
\* Wait() is called by a goroutine of its own while Submit calls are under
\* way and further ones may follow; the jobs whose Submit has begun are noted.
\* The jobs run on goroutines of their own.
CallWait ==
    /\ main.pc = "idle" /\ main.calls < MaxCalls
    /\ main' = [main EXCEPT !.pc = "wait", !.call = "Wait", !.calls = @ + 1,
                            !.before = {j \in JobIds : jobs[j].pc # "none"}]
    /\ UNCHANGED <<queue, errors, closed, wg, closer, jobs, njobs, sub, count,
                   ret>>
    /\ UNCHANGED <<capacity, qclosed>>
    /\ UNCHANGED cacheVars

WaitNext ==
    \/ (\E s \in Submitters, k \in AsyncKinds : Submit(s, k[1], k[2], FALSE)) /\ UNCHANGED doneLog
    \/ (\E j \in JobIds : AcquireSlot(j)) /\ UNCHANGED doneLog
    \/ (\E j \in JobIds : RunJob(j)) /\ UNCHANGED doneLog
    \/ (\E j \in JobIds : JobWork(j)) /\ UNCHANGED doneLog
    \/ (\E j \in JobIds : DoneWg(j)) /\ UNCHANGED doneLog
    \/ (\E j \in JobIds : DoneCheckClosed(j)) /\ UNCHANGED doneLog
    \/ (\E j \in JobIds : DoneRelease(j)) /\ UNCHANGED doneLog
    \/ (\E j \in JobIds : DoneAppend(j)) /\ UNCHANGED doneLog
    \/ (CallWait) /\ UNCHANGED doneLog
    \/ (Wait) /\ UNCHANGED doneLog
    \/ (Close) /\ UNCHANGED doneLog

WaitSpec == Init /\ [][WaitNext]_vars

\* ------------------------------------------------------------ pool liveness
\* The jobs that invoke done once: on a goroutine of their own, by returning
\* an error, or by calling done themselves before they return nil.
DoneKinds ==
    {<<FALSE, FALSE, FALSE>>, <<FALSE, TRUE, FALSE>>, <<TRUE, TRUE, FALSE>>,
     <<TRUE, FALSE, TRUE>>, <<TRUE, TRUE, TRUE>>}

\* A step of the goroutine that runs job j: Submit from its send on, the
\* job function, the goroutine the job started, the done callback.
JobStep(j) ==
    \/ AcquireSlot(j)
    \/ RunJob(j)
    \/ JobWork(j)
    \/ DoneWg(j)
    \/ DoneCheckClosed(j)
    \/ DoneRelease(j)
    \/ DoneAppend(j)
    \/ FnReturn(j)

\* A step of the goroutine that called Wait or Close.
MainStep == Wait \/ Close

LiveNext ==
    \/ (\E s \in Submitters, k \in DoneKinds : Submit(s, k[1], k[2], k[3])) /\ UNCHANGED doneLog
    \/ (\E j \in JobIds : AcquireSlot(j)) /\ UNCHANGED doneLog
    \/ (\E j \in JobIds : RunJob(j)) /\ UNCHANGED doneLog
    \/ (\E j \in JobIds : JobWork(j)) /\ UNCHANGED doneLog
    \/ (\E j \in JobIds : DoneWg(j)) /\ UNCHANGED doneLog
    \/ (\E j \in JobIds : DoneCheckClosed(j)) /\ UNCHANGED doneLog
    \/ (\E j \in JobIds : DoneRelease(j)) /\ UNCHANGED doneLog
    \/ (\E j \in JobIds : DoneAppend(j)) /\ UNCHANGED doneLog
    \/ (\E j \in JobIds : FnReturn(j)) /\ UNCHANGED doneLog
    \/ (\E call \in {"Wait", "Close"} : CallMain(call)) /\ UNCHANGED doneLog
    \/ (Wait) /\ UNCHANGED doneLog
    \/ (Close) /\ UNCHANGED doneLog

\* The Go scheduler runs every goroutine that can take a step: a job's
\* goroutine and the caller of Wait go on whenever they are not blocked.
\* Whether Submit, Wait or Close is called at all is up to the program.
LiveSpec ==
    /\ Init
    /\ [][LiveNext]_vars
    /\ \A j \in JobIds : WF_vars(JobStep(j) /\ UNCHANGED doneLog)
    /\ WF_vars(MainStep /\ UNCHANGED doneLog)

\* ------------------------------------------------------------- GC trigger
\* A cache that was created one GC interval before its first call: the first
\* write already finds a sweep due, and a write one interval later another.
GcInit ==
    /\ clock = StartTime
    /\ lastGcTime = StartTime - GCInterval
    /\ items = [k \in Keys |-> Nil]
    /\ heap = [i \in Ids |-> ZeroItem]
    /\ chans = [i \in Ids |-> NewChannel]
    /\ gens = [i \in Ids |-> NoGen]
    /\ pc = [c \in Callers |-> "idle"]
    /\ loc = [c \in Callers |-> IdleLoc]
    /\ ops = 0
    /\ panicked = "no"
    /\ res = [i \in Ids |-> NoRes]
    /\ plain = [k \in Keys |-> TRUE]
    /\ purged = -1
    /\ PoolInit
    /\ LibIdle

GcSpec == GcInit /\ [][Next]_vars

\* ------------------------------------------------------------ properties
Running(k) == {g \in Ids : gens[g].pc = "run" /\ gens[g].key = k}
Started(k) == {g \in Ids : gens[g].pc # "none" /\ gens[g].key = k}
Stored(g) == gens[g].pc \in {"signal", "closing", "done"}

\* C1 (single-flight): in every reachable state at most one generator is
\* running (started, its result not yet applied by write) for any key.
C1_SingleFlight == \A k \in Keys : Cardinality(Running(k)) <= 1

\* Two callers are inside a call for the same key while its one generator
\* runs: the second went through createCacheItem's race check.
C1_Witness ==
    \E k \in Keys :
        /\ Cardinality(Running(k)) = 1
        /\ \E c, d \in Callers :
              /\ c # d
              /\ pc[c] = "wait" /\ loc[c].key = k /\ loc[c].gen # Nil
              /\ pc[d] = "wait" /\ loc[d].key = k /\ loc[d].gen = Nil

\* C2 (liveness), in the form a finite run refutes: once every generator
\* goroutine has finished (and the process has not panicked) nobody is left
\* to signal anything, so no caller may still be blocked on an open handle.
C2_NoCallerStranded ==
    (Alive /\ \A g \in Ids : ~Live(g)) =>
        \A c \in Callers : pc[c] = "recv" => chans[loc[c].ch].closed

\* C3 (ready ordering): a ready handle is signalled only by the write of the
\* pass it was created for, hence only after that pass has stored its result.
C3_ReadyAfterOwnWrite == \A h \in Ids : chans[h].closed => Stored(h)

\* C4 (coalescing): while every call made for a key is a Get with a
\* generator that succeeds and a TTL that outlasts the run, the generator is
\* invoked once in total and every Get returns that invocation's value.
C4_Coalesced ==
    \A k \in Keys :
        plain[k] =>
            /\ Cardinality(Started(k)) <= 1
            /\ \A i \in Ids :
                  (res[i].op = "get" /\ res[i].key = k) =>
                      /\ res[i].err = 0
                      /\ \E g \in Started(k) : res[i].data = gens[g].data

\* C5 (Set is never dropped): when a Set has returned, a generator carrying
\* its value was started for it and that generator's write has taken place.
C5_SetStored ==
    \A i \in Ids :
        res[i].op = "set" => (res[i].gen # Nil /\ Stored(res[i].gen))

\* C10 (error propagation): a Get that waited on the handle of a pass whose
\* generator failed returns that generator's error and data.
C10_ErrorPropagated ==
    \A i \in Ids :
        (res[i].op = "get" /\ res[i].path = "wait" /\ gens[res[i].ch].err # 0)
            => /\ res[i].err = gens[res[i].ch].err
               /\ res[i].data = gens[res[i].ch].data

\* The step is a call of GetWithOpts for key k (call number ops + 1).
CalledGet(k) ==
    /\ ops' = ops + 1
    /\ \/ res'[ops + 1].op = "get" /\ res'[ops + 1].key = k
       \/ \E c \in Callers :
             loc'[c].id = ops + 1 /\ loc'[c].op = "get" /\ loc'[c].key = k

\* The time at which the value of Set number i was stored (the time of the
\* call when no write was made for it).
SetStoredAt(i) == IF res[i].gen # Nil THEN gens[res[i].gen].at ELSE res[i].now

\* C6 (Set visibility, one call at a time): a Get that follows a Set of the
\* same key before the Set's TTL has elapsed returns the value set, with no
\* error, and starts no generator.
C6_SetVisible ==
    \A i \in Ids :
        (/\ i > 1
         /\ res[i].op = "get" /\ res[i - 1].op = "set"
         /\ res[i].key = res[i - 1].key
         /\ res[i].now < SetStoredAt(i - 1) + res[i - 1].ttl)
            => /\ res[i].data = res[i - 1].val
               /\ res[i].err = 0
               /\ res[i].gen = Nil
               /\ gens[i].pc = "none"

\* A generated value, overwritten by a Set, read back by a Get.
C6_Witness ==
    /\ MaxOps >= 3
    /\ res[1].op = "get" /\ res[1].err = 0
    /\ res[2].op = "set" /\ res[2].gen = 2
    /\ res[3].op = "get" /\ res[3].path = "fresh" /\ res[3].data = res[2].val

\* C7 (fresh hit): a Get whose snapshot finds the key present, without error
\* and not yet expired returns the stored data with a nil error in that very
\* step: no generator is started, nothing is waited for, the cache state is
\* unchanged.
C7_FreshHit ==
    [][\A k \in Keys :
          (/\ CalledGet(k)
           /\ items[k] # Nil
           /\ heap[items[k]].err = 0
           /\ clock < heap[items[k]].expires)
              => /\ res'[ops + 1].op = "get"
                 /\ res'[ops + 1].data = heap[items[k]].data
                 /\ res'[ops + 1].err = 0
                 /\ res'[ops + 1].gen = Nil
                 /\ pc' = pc
                 /\ UNCHANGED <<items, heap, chans, gens, lastGcTime>>]_vars

\* A Get has returned on the fresh path and its generator was never started.
C7_Witness ==
    \E i \in Ids :
        /\ res[i].op = "get" /\ res[i].path = "fresh"
        /\ res[i].data # 0 /\ gens[i].pc = "none"

\* C8 (grace hit): a Get whose snapshot finds the key present, without error,
\* expired but not banned, returns the stale data with a nil error and never
\* waits; it starts a refresh exactly when no generator is running for the
\* key (seen working in the snapshot, or under updateCacheItem's lock).
C8_GraceHit ==
    [][/\ \A k \in Keys :
            (/\ CalledGet(k)
             /\ items[k] # Nil
             /\ heap[items[k]].err = 0
             /\ heap[items[k]].expires <= clock
             /\ clock < heap[items[k]].banned)
                => IF Running(k) # {}
                   THEN /\ res'[ops + 1].op = "get"
                        /\ res'[ops + 1].data = heap[items[k]].data
                        /\ res'[ops + 1].err = 0
                        /\ gens' = gens
                   ELSE \E c \in Callers :
                           /\ pc'[c] = "update"
                           /\ loc'[c].sdata = heap[items[k]].data
       /\ \A c \in Callers :
            (pc[c] = "update" /\ loc[c].op = "get" /\ pc'[c] # "update")
                => /\ res'[loc[c].id].op = "get"
                   /\ res'[loc[c].id].data = loc[c].sdata
                   /\ res'[loc[c].id].err = 0
                   /\ (gens'[loc[c].id].pc = "run")
                          <=> (Running(loc[c].key) = {})]_vars

\* C9 (miss with no TTL, one call at a time): while every call so far was
\* made with TTL = 0 and grace = 0, each Get starts its own generator and
\* returns what that invocation produced.
C9_MissNoTTL ==
    \A i \in Ids :
        (/\ res[i].op = "get"
         /\ \A j \in 1..i : res[j].ttl = 0 /\ res[j].grace = 0)
            => /\ res[i].gen = i
               /\ res[i].path = "wait"
               /\ res[i].data = gens[i].data
               /\ res[i].err = gens[i].err

\* Two Gets in a row with TTL = 0 and grace = 0: two different values.
C9_Witness ==
    /\ res[1].op = "get" /\ res[1].ttl = 0 /\ res[1].grace = 0
    /\ res[2].op = "get" /\ res[2].ttl = 0 /\ res[2].grace = 0
    /\ res[1].err = 0 /\ res[2].err = 0
    /\ res[2].data # res[1].data

\* C11 (errors are never served from cache): a Get whose snapshot finds the
\* key holding the error of its last generation does not return in that
\* step; it waits, and what it returns is the result of another generation,
\* one whose write came after the snapshot: never the stored error, never a
\* value stored before it.
C11_NoCachedError ==
    \A i \in Ids :
        (res[i].op = "get" /\ res[i].serr # 0) =>
            /\ res[i].path = "wait"
            /\ \E g \in Ids :
                  /\ g # res[i].serr
                  /\ Stored(g) /\ gens[g].key = res[i].key
                  /\ gens[g].at >= res[i].now
                  /\ res[i].data = gens[g].data
                  /\ res[i].err = gens[g].err

\* C12 (GC eligibility): a sweep removes exactly the keys whose item is not
\* working, has banned > 0 and has now >= banned; it returns how many it
\* removed and leaves every other key, and every item, as it was.
C12_SweepExact ==
    [][clock' = clock =>
          LET gone == {k \in DOMAIN items :
                          /\ items[k] # Nil
                          /\ ~heap[items[k]].working
                          /\ heap[items[k]].banned > 0
                          /\ clock >= heap[items[k]].banned}
          IN  /\ \A k \in DOMAIN items :
                    items'[k] = IF k \in gone THEN Nil ELSE items[k]
              /\ heap' = heap
              /\ purged' = Cardinality(gone)]_vars

\* A sweep has removed a key and kept two: one whose ban is still to come,
\* one past its ban whose generator is running.
C12_Witness ==
    /\ purged >= 1
    /\ \E k \in DOMAIN items :
          /\ items[k] # Nil /\ ~heap[items[k]].working
          /\ clock < heap[items[k]].banned
    /\ \E k \in DOMAIN items :
          /\ items[k] # Nil /\ heap[items[k]].working
          /\ heap[items[k]].banned > 0 /\ clock >= heap[items[k]].banned

\* C13 (a working key stays): while working is true for a key, the key stays
\* in the map, bound to the same Item object; a running generator always has
\* its working item in the map, and its write never finds nil.
C13_WorkingStays ==
    [][/\ \A k \in DOMAIN items :
            (/\ items[k] # Nil
             /\ heap[items[k]].working
             /\ heap'[items[k]].working) => items'[k] = items[k]
       /\ \A g \in Ids :
            gens[g].pc = "run" =>
                /\ items[gens[g].key] # Nil
                /\ heap[items[gens[g].key]].working
       /\ panicked' # "nil item in write"]_vars

\* A sweep run by the write for one key passes over the other key, whose
\* item is past its ban while its generator is running.
C13_Witness ==
    \E k \in DOMAIN items, g \in Ids :
        /\ items[k] # Nil /\ heap[items[k]].working
        /\ heap[items[k]].banned > 0 /\ lastGcTime >= heap[items[k]].banned
        /\ lastGcTime > StartTime
        /\ gens[g].pc = "signal" /\ gens[g].key # k /\ gens[g].at = lastGcTime

\* C14 (expires <= banned): for every Item object in every reachable state,
\* placeholders included, expires is at most banned (TTL and grace are never
\* negative).
C14_ExpiresBeforeBanned == \A i \in Ids : heap[i].expires <= heap[i].banned

\* The step is a write that runs the sweep.
SweepStep ==
    /\ GcDue(clock)
    /\ \E g \in Ids : gens[g].pc = "run" /\ gens'[g].pc = "signal"

\* The step is createCacheItem installing the placeholder of call n for k.
CreateStep(k) ==
    \E c \in Callers :
        /\ pc[c] = "create" /\ pc'[c] = "wait" /\ loc[c].key = k
        /\ items'[k] = loc[c].id

\* C15 (item lifecycle), as stated: an Item object installed for a key
\* leaves the map, removed or replaced, only through the sweep run from
\* write.
C15_OnlySweepDestroys ==
    [][\A k \in DOMAIN items :
          (items[k] # Nil /\ items'[k] # items[k]) =>
              (SweepStep /\ items'[k] = Nil)]_vars

\* C15, amended: an Item object installed for a key leaves the map only
\* through the sweep run from write, which removes it, or through
\* createCacheItem, which replaces it by a new placeholder when it is not
\* working.
C15_SweepOrReplace ==
    [][\A k \in DOMAIN items :
          (items[k] # Nil /\ items'[k] # items[k]) =>
              \/ SweepStep /\ items'[k] = Nil
              \/ /\ CreateStep(k)
                 /\ ~heap[items[k]].working
                 /\ heap'[items'[k]].working]_vars

\* The item of the first call was replaced by the placeholder of a later
\* call, and a sweep has run.
C15_Witness ==
    \E k \in DOMAIN items :
        /\ gens[1].key = k /\ gens[1].item = 1 /\ Stored(1)
        /\ items[k] # Nil /\ items[k] > 1
        /\ lastGcTime > StartTime

\* The jobs submitted so far, those whose function is running (invoked by
\* Submit, done not yet invoked), and those that report an error.
Submitted == {j \in JobIds : jobs[j].pc # "none"}
Active == {j \in JobIds : jobs[j].pc \in {"fn", "work"}}
Failing == {j \in Submitted : jobs[j].err # 0}
Recorded(list, e) == Cardinality({i \in 1..Len(list) : list[i] = e})

\* C16 (concurrency bound): before Close, the number of jobs whose function
\* has been invoked by Submit and whose done has not yet been invoked is at
\* most the capacity, with any number of concurrent submitters.
C16_ActiveBound == ~closed => Cardinality(Active) <= Capacity

\* The pool is full and a further job waits for a slot.
C16_Witness ==
    /\ ~closed /\ Cardinality(Active) = Capacity
    /\ \E j \in JobIds : jobs[j].pc = "send"

\* C17 (async error collection): Errors(), called after the last Submit,
\* returns the error of every job that reported one through done(err): as
\* many errors as jobs that failed.
C17_AsyncErrorsCollected ==
    ret.n >= 1 =>
        /\ Len(ret.errs) = Cardinality(Failing)
        /\ \A j \in Failing : Recorded(ret.errs, jobs[j].err) = 1

\* C18 (sync error collection): the error a job function returns is recorded
\* exactly once by the time its Submit returns, and Errors() returns each
\* such error once: exactly those errors when every job returned one.
C18_SyncErrorsRecorded ==
    /\ \A j \in Submitted :
          (jobs[j].sync /\ jobs[j].pc = "over") =>
              Recorded(errors, JobError(j)) = 1
    /\ ret.n >= 1 =>
          /\ \A j \in Submitted :
                jobs[j].sync => Recorded(ret.errs, JobError(j)) = 1
          /\ (\A j \in Submitted : jobs[j].sync) => Len(ret.errs) = njobs

\* One caller has submitted more jobs than the capacity, each returning an
\* error, and Errors() has returned them all.
C18_Witness ==
    /\ njobs = MaxJobs /\ MaxJobs > Capacity
    /\ \A j \in JobIds : jobs[j].sync /\ jobs[j].by = 1
    /\ ret.n >= 1 /\ Len(ret.errs) = MaxJobs

\* C19 (Wait completeness): once wg.Wait() has returned, done has been
\* invoked (and has passed wg.Done) for every job submitted, and the counter
\* holds one increment for each job that increments it before done.
C19_WaitComplete ==
    main.waited =>
        /\ \A j \in Submitted :
              jobs[j].pc \in {"check", "release", "append", "over"}
        /\ count = Cardinality({j \in Submitted : ~jobs[j].sync})

\* Wait has returned after as many counting jobs as the bound allows.
C19_Witness ==
    /\ main.waited /\ main.pc = "idle" /\ ret.n = 0
    /\ count = MaxJobs

\* C20 (nothing after Close): once Close has completed no done invocation
\* takes a slot out of the queue or appends to errors, so the list Errors()
\* returns is the same at every later call.
C20_NothingAfterClose ==
    [][closed =>
          /\ queue' = queue
          /\ errors' = errors
          /\ (ret.n >= 1 /\ ret'.n > ret.n) => ret'.errs = ret.errs]_vars

\* C30 (refresh under a concurrent sweep): whenever a caller is about to run
\* updateCacheItem the key it saw under the read lock is still in the map,
\* so updateCacheItem never dereferences a nil item.
C30_RefreshFindsItem ==
    /\ \A c \in Callers : pc[c] = "update" => items[loc[c].key] # Nil
    /\ panicked # "nil item in updateCacheItem"

\* Where the event is in the history of done callbacks, 0 when it is not.
LogPos(kind, j) ==
    IF \E n \in 1..Len(doneLog) : doneLog[n] = <<kind, j>>
    THEN CHOOSE n \in 1..Len(doneLog) : doneLog[n] = <<kind, j>>
    ELSE 0

\* Where the error of job j is in p.errors, 0 when it is not recorded.
ErrPos(j) ==
    IF \E n \in 1..Len(errors) : errors[n] = JobError(j)
    THEN CHOOSE n \in 1..Len(errors) : errors[n] = JobError(j)
    ELSE 0

\* done of job i was invoked before done of job j was.
InvokedBefore(i, j) ==
    LogPos("inv", i) > 0 /\ LogPos("inv", i) < LogPos("inv", j)

\* done of job i had returned when done of job j was invoked.
ReturnedBefore(i, j) ==
    LogPos("ret", i) > 0 /\ LogPos("ret", i) < LogPos("inv", j)

Counted == {j \in JobIds : jobs[j].pc \in {"send", "fn", "work", "wgdone"}}

\* The jobs that hold a slot of the queue: sent, not yet received back.
Holding ==
    {j \in JobIds : jobs[j].pc \in {"fn", "work", "wgdone", "check", "release"}}

\* The jobs that hand their error over on the goroutine of Submit and whose
\* Submit has returned: by returning it, or by calling done(err) themselves.
SyncOver == {j \in JobIds : jobs[j].sync /\ jobs[j].err # 0 /\ jobs[j].pc = "over"}

\* C22 (returned error = synchronous done(err)): a job that returns its error
\* and a job that calls done(err) itself and returns nil leave the same pool
\* state: once Submit has returned the error is in the list exactly once, the
\* job holds no unit of the counter and (no Close made) no slot of the queue.
C22_ReturnIsDone ==
    /\ \A j \in SyncOver : Recorded(errors, JobError(j)) = 1
    /\ wg = Cardinality(Counted)
    /\ ~closed => queue = Cardinality(Holding)
    /\ Len(errors) <= Cardinality(Failing)

\* One job of each form has been run, and nothing else is going on.
C22_Witness ==
    /\ \E i, j \in SyncOver : jobs[i].calls /\ ~jobs[j].calls
    /\ Counted = {} /\ Holding = {}
    /\ wg = 0 /\ queue = 0 /\ Len(errors) = 2

\* The jobs whose done callback has been invoked.
DoneInvoked == {j \in JobIds : jobs[j].pc \in InDone \cup {"fnret", "over"}}

\* The jobs whose function has been invoked by Submit.
FnInvoked == {j \in JobIds : jobs[j].pc \notin {"none", "send"}}

\* C23 (admission blocks on capacity): the function of a job is invoked only
\* in a step that takes a free slot of the queue; while all capacity slots are
\* held a submitted job stays in front of the queue; and with capacity 1 the
\* done of every job whose function was invoked before has been invoked when
\* the function of the next job is.
C23_AdmissionBlocks ==
    [][\A j \in JobIds :
          /\ jobs[j].pc = "send" /\ queue >= capacity => jobs'[j].pc = "send"
          /\ jobs[j].pc = "send" /\ jobs'[j].pc # "send"
                => /\ queue < capacity /\ queue' = queue + 1
                   /\ jobs'[j].pc = "fn"
                   /\ capacity = 1 => FnInvoked \subseteq DoneInvoked]_vars

\* With capacity 1: the function of one job was invoked after the done of
\* another, and a third job is waiting for the slot it holds.
C23_Witness ==
    /\ capacity = 1 /\ queue = capacity
    /\ \E i, j, k \in JobIds :
          /\ jobs[i].pc = "over" /\ i \in DoneInvoked
          /\ jobs[j].pc = "fn"
          /\ jobs[k].pc = "send"

\* A step in which a call of Close (made directly, by Wait, or by another
\* goroutine) runs p.closer.Do.
CloseStep ==
    \/ main.pc = "close" /\ main'.pc # "close"
    \/ main'.others = main.others + 1

\* C24 (Close is idempotent): whatever number of Close calls is made, one
\* after the other or by a second goroutine, the queue channel is closed
\* exactly once and closed is true from the first call on; a Close call on a
\* closed pool changes nothing of the pool and closes no channel twice.
C24_CloseOnce ==
    [][/\ qclosed' <= 1
       /\ closed' <=> qclosed' = 1
       /\ CloseStep => closed' /\ qclosed' = 1
       /\ CloseStep /\ closer = "done"
             => UNCHANGED <<queue, errors, closed, wg, closer, jobs, njobs,
                            sub, count, capacity, qclosed>>]_vars

\* Wait has made its Close call and another goroutine has made one too.
C24_Witness ==
    /\ main.others > 0 /\ main.waited /\ main.pc = "idle"
    /\ closed /\ qclosed = 1

\* C25 (Wait is unblockable after Close): done decrements the counter before
\* it looks at closed, so once every submitted job has got past wg.Done in
\* its done callback the counter is zero and wg.Wait() returns, also when
\* Close was called while jobs were outstanding.
C25_WaitUnblocked ==
    /\ wg = Cardinality(Counted)
    /\ Counted = {} => AllDone(wg)

\* Close was called first; Wait, called after it, has got past wg.Wait() on
\* the closed pool, after a done callback that found the pool closed.
C25_Witness ==
    /\ main.pc = "close" /\ main.call = "Wait" /\ main.waited
    /\ closer = "done" /\ closed
    /\ queue > 0 /\ Submitted # {} /\ \A j \in Submitted : jobs[j].pc = "over"

\* The Authz value starts with "Bearer ", in any mix of upper and lower case.
HasBearerPrefix(authz) ==
    /\ Len(authz) >= 7
    /\ \A i \in 1..7 : FoldCase(authz[i]) = FoldCase(jwtAuthzPrefix[i])

\* C26 (authorization scheme): a call of Validate whose Authz value does not
\* start with "Bearer " (in any case) or has nothing after it returns no
\* token and the error "invalid authorization scheme", with the token not
\* parsed and KeyFunc not called.
C26_SchemeRejected ==
    jwt.pc = "done" /\ (~HasBearerPrefix(jwt.authz) \/ Len(jwt.authz) = 7)
        => /\ jwt.err = "invalid authorization scheme" /\ ~jwt.token
           /\ ~jwt.parsed /\ jwt.keyCalls = 0

\* Validate has rejected the value "bearer " (lower case, no token).
C26_Witness ==
    /\ jwt.pc = "done" /\ jwt.err = "invalid authorization scheme"
    /\ jwt.authz = <<"b", "e", "a", "r", "e", "r", " ">>

\* The strings of a list.
Elements(list) == {list[i] : i \in 1..Len(list)}

\* The errors Validate returns before it gets to the audience assertion.
EarlierErrors ==
    {"invalid authorization scheme", "token is malformed",
     "signature is invalid", "invalid token", "invalid token sub"}

TokenStarts(input) ==
    {a \in 1..Len(input) :
        /\ input[a] \notin Delimiters
        /\ a = 1 \/ input[a - 1] \in Delimiters}

\* The place where the token that starts at a ends.
TokenEnd(input, a) ==
    CHOOSE b \in a..Len(input) :
        /\ \A i \in a..b : input[i] \notin Delimiters
        /\ b = Len(input) \/ input[b + 1] \in Delimiters

\* The tokens of the input, from left to right.
Tokens(input) ==
    LET starts == TokenStarts(input)
        nth(n) == CHOOSE a \in starts :
                      Cardinality({x \in starts : x < a}) = n - 1
    IN  [n \in 1..Cardinality(starts) |->
            SubSeq(input, nth(n), TokenEnd(input, nth(n)))]

\* C29 (SplitStringByDelimiter): the result is the list of the tokens between
\* the runs of commas and whitespace, in input order; it is not nil, holds no
\* empty string, and is empty when the input has no token.
C29_SplitString ==
    split.pc = "done" /\ split.fn = "strings"
        => /\ split.list = Tokens(split.input)
           /\ ~split.isNil
           /\ \A i \in 1..Len(split.list) : split.list[i] # <<>>
           /\ (\A i \in 1..Len(split.input) : split.input[i] \in Delimiters)
                => split.list = <<>>

\* The input ",a " was split: delimiters in front and behind, one token.
C29_Witness ==
    /\ split.pc = "done" /\ split.fn = "strings"
    /\ split.input = <<",", "a", " ">>
    /\ split.list = << <<"a">> >>

\* The digits of a token, without its sign.
Unsigned(t) == IF t # <<>> /\ t[1] \in {"-", "+"} THEN Tail(t) ELSE t

\* The number a string of digits stands for.
RECURSIVE Decimal(_)
Decimal(digits) ==
    IF digits = <<>> THEN 0
    ELSE 10 * Decimal(SubSeq(digits, 1, Len(digits) - 1))
           + DigitValue(digits[Len(digits)])

\* The integer a token stands for.
IntOf(t) == IF t[1] = "-" THEN 0 - Decimal(Unsigned(t)) ELSE Decimal(Unsigned(t))

\* The token is an integer: an optional sign and at least one digit, with a
\* value in the range of int.
IsInt(t) ==
    /\ Unsigned(t) # <<>>
    /\ \A i \in 1..Len(Unsigned(t)) : IsDigit(Unsigned(t)[i])
    /\ IntOf(t) >= 0 - MaxInt - 1 /\ IntOf(t) <= MaxInt

\* C28 (SplitIntsByDelimiter): when every token of the input is an integer
\* the result is the list of their values in input order, not nil (empty for
\* an input with no token), with a nil error; when some token is not, the
\* result is nil and the error is the conversion error of Atoi, never a
\* partial list.
C28_SplitInts ==
    split.pc = "done" /\ split.fn = "ints"
        => LET tokens == Tokens(split.input)
           IN  IF \A i \in 1..Len(tokens) : IsInt(tokens[i])
               THEN /\ split.err = "" /\ ~split.isNil
                    /\ split.list = [i \in 1..Len(tokens) |-> IntOf(tokens[i])]
               ELSE /\ split.err \in {"invalid syntax", "value out of range"}
                    /\ split.isNil /\ split.list = <<>>

\* The input "1,a" was converted: the first token is an integer, the second
\* is not, and the result is nil.
C28_Witness ==
    /\ split.pc = "done" /\ split.fn = "ints"
    /\ split.input = <<"1", ",", "a">>
    /\ split.isNil /\ split.err = "invalid syntax"


\* The step is caller c's pass through updateCacheItem.
Refreshes(c) == pc[c] = "update" /\ pc'[c] # "update"

\* C34 (refresh frame): updateCacheItem changes nothing but the working flag
\* and the ready handle of the one item stored under its key: the map and
\* every item's data, err, created, expires and banned are as before, so a
\* snapshot of the key taken after it reads the data, err, expires and banned
\* a snapshot taken before it read.
C34_RefreshFrame ==
    [][\A c \in Callers :
          Refreshes(c) =>
              /\ items' = items
              /\ \A i \in Ids :
                    /\ heap'[i] = [heap[i] EXCEPT
                                      !.working = heap'[i].working,
                                      !.ready = heap'[i].ready]
                    /\ i # items[loc[c].key] => heap'[i] = heap[i]
              /\ \A k \in Keys :
                    /\ Snapshot(k).data = Snapshot(k)'.data
                    /\ Snapshot(k).err = Snapshot(k)'.err
                    /\ Snapshot(k).expires = Snapshot(k)'.expires
                    /\ Snapshot(k).banned = Snapshot(k)'.banned]_vars

\* A refresh is under way: its generator runs on an item that an earlier pass
\* created and that still holds that pass's data.
C34_Witness ==
    \E k \in Keys, g \in Ids :
        /\ gens[g].pc = "run" /\ gens[g].key = k
        /\ items[k] # Nil /\ items[k] # g
        /\ heap[items[k]].working /\ heap[items[k]].ready = g
        /\ heap[items[k]].data # 0 /\ heap[items[k]].banned > 0


\* The step removes a key from the map.
RemovesKey == \E k \in Keys : items[k] # Nil /\ items'[k] = Nil

\* The step is a write: a generator's result is stored.
WriteStep == \E g \in Ids : gens[g].pc = "run" /\ gens'[g].pc = "signal"

\* C35 (GC trigger): last_gc never decreases; a step that removes a key or
\* moves last_gc is a write, made when gc_interval > 0 and the time the write
\* read is at least last_gc + gc_interval, and it sets last_gc to that time,
\* at least gc_interval after the sweep before; a write made when a sweep is
\* due sets last_gc, and every other step leaves the map's keys in place.
C35_GcTrigger ==
    [][/\ lastGcTime' >= lastGcTime
       /\ (RemovesKey \/ lastGcTime' # lastGcTime) =>
              /\ WriteStep
              /\ GCInterval > 0
              /\ clock >= lastGcTime + GCInterval
              /\ lastGcTime' = clock
              /\ lastGcTime' - lastGcTime >= GCInterval
       /\ (WriteStep /\ GCInterval > 0 /\ clock >= lastGcTime + GCInterval)
              => lastGcTime' = clock]_vars

\* Two sweeps have been run, one interval apart, and the second removed the
\* key; a write made after it, less than an interval later, ran no sweep: the
\* item it stored is past its ban and still in the map.
C35_Witness ==
    /\ lastGcTime = StartTime + GCInterval
    /\ clock < lastGcTime + GCInterval
    /\ \E f, g, h \in Ids :
          /\ f < g /\ g < h
          /\ Stored(f) /\ gens[f].at = StartTime
          /\ Stored(g) /\ gens[g].at = lastGcTime /\ items[gens[g].key] # g
          /\ Stored(h) /\ gens[h].at = lastGcTime /\ items[gens[h].key] = h
          /\ IsExpired(heap[h], clock)


\* The item holds, in every field write assigns, what pass g stored.
FromPass(v, g) ==
    /\ v.data = gens[g].data
    /\ v.err = gens[g].err
    /\ v.created = gens[g].at
    /\ v.expires = Add64(gens[g].at, gens[g].ttl)
    /\ v.banned = Add64(Add64(gens[g].at, gens[g].ttl), gens[g].grace)

\* The passes whose write stored into item i.
WrittenBy(i) == {g \in Ids : gens[g].pc # "none" /\ gens[g].item = i}

\* C32 (write is atomic): what a snapshot of a key reads under the read lock
\* is never a mix of two passes.  An item no write has reached is working and
\* holds the zero value in data, err, created, expires and banned; any other
\* item holds in all five fields what one and the same pass stored, and is
\* working exactly while a generator started since then runs for the key.
C32_WriteAtomic ==
    \A k \in Keys :
        items[k] # Nil =>
            LET v == heap[items[k]]
                w == WrittenBy(items[k])
            IN  IF w = {}
                THEN /\ v.working
                     /\ v = [ZeroItem EXCEPT !.working = TRUE,
                                             !.ready = v.ready]
                ELSE /\ \E g \in w : FromPass(v, g)
                     /\ v.working <=> Running(k) # {}

\* A refresh has been written over the result of the pass that created the
\* item, with another value and other timestamps.
C32_Witness ==
    \E k \in Keys, g, h \in Ids :
        /\ items[k] # Nil /\ ~heap[items[k]].working
        /\ g < h /\ {g, h} \subseteq WrittenBy(items[k])
        /\ gens[g].data # gens[h].data
        /\ gens[g].at # gens[h].at
        /\ heap[items[k]].expires # Add64(gens[g].at, gens[g].ttl)


\* The generator invocations (those SetWithOpts builds included) made for
\* key k that returned without error.
Succeeded(k) ==
    {g \in Ids : gens[g].pc # "none" /\ gens[g].key = k /\ gens[g].err = 0}

\* C33 (returned values are genuine): the data of every Get that returned a
\* nil error is the output of a successful generator invocation, or the value
\* of a Set, made for the same key; it is never the zero value a placeholder
\* holds.
C33_GenuineValue ==
    \A i \in Ids :
        (res[i].op = "get" /\ res[i].err = 0) =>
            /\ res[i].data # ZeroItem.data
            /\ \E g \in Succeeded(res[i].key) : res[i].data = gens[g].data

\* A Get that found a placeholder in the map, waited on its handle and
\* returned the value the placeholder's generator produced.
C33_Witness ==
    \E i \in Ids :
        /\ res[i].op = "get" /\ res[i].path = "wait" /\ res[i].err = 0
        /\ res[i].gen = Nil
        /\ res[i].ch # Nil /\ res[i].ch # i
        /\ res[i].data = gens[res[i].ch].data
        /\ heap[res[i].ch].ready = res[i].ch


\* The step is caller c's return from the wait of a GetWithOpts (lines
\* 251-260).
WakesUp(c) == pc[c] = "recv" /\ loc[c].op = "get" /\ pc'[c] = "idle"

\* C31 (the miss path returns a new result): a Get whose snapshot finds the
\* key missing, holding an error, or at or past its ban does not return in
\* that step but goes on to wait; and what a Get returns from the wait is the
\* (data, err) of a pass that wrote into the item it waited on, no earlier
\* than the call began, and is not the (data, err) its snapshot read.
C31_MissReturnsNew ==
    [][/\ \A k \in Keys :
            (/\ CalledGet(k)
             /\ \/ items[k] = Nil
                \/ heap[items[k]].err # 0
                \/ clock >= heap[items[k]].banned)
                => /\ res'[ops + 1].op = "none"
                   /\ \E c \in Callers :
                         /\ loc'[c].id = ops + 1
                         /\ pc'[c] \in {"create", "wait"}
       /\ \A c \in Callers :
            WakesUp(c) =>
                \E g \in Ids :
                    /\ gens[g].pc # "none" /\ gens[g].item = loc[c].item
                    /\ gens[g].at >= loc[c].now
                    /\ res'[loc[c].id].data = gens[g].data
                    /\ res'[loc[c].id].err = gens[g].err
                    /\ ~(/\ gens[g].data = loc[c].sdata
                         /\ gens[g].err = loc[c].serr)]_vars


\* Pass g stored an item that was past its ban at once (TTL = 0, grace = 0)
\* and the sweep of that same write removed the key: the key is absent, the
\* item holds what g stored, last_gc is the time of g's write and no other
\* pass has written at that time or later.
OwnEviction(g) ==
    /\ gens[g].pc # "none" /\ gens[g].item # Nil
    /\ gens[g].ttl = 0 /\ gens[g].grace = 0
    /\ items[gens[g].key] = Nil
    /\ FromPass(heap[gens[g].item], g)
    /\ lastGcTime = gens[g].at
    /\ \A h \in Ids \ {g} : gens[h].item = Nil \/ gens[h].at < gens[g].at

\* Caller c is inside a Get, on its way to the wait, or in the wait, on the
\* item pass g wrote.
WaitsOn(c, g) ==
    /\ pc[c] \in {"wait", "recv"} /\ loc[c].op = "get"
    /\ loc[c].item = gens[g].item

\* C36 (a result survives its own eviction): after a write has stored an
\* item already past its ban and its sweep has removed the key, a caller
\* waiting on that item that wakes up returns that pass's (data, err); the
\* pass, once done, has closed the handle they wait on; the process does not
\* die while they wait; and a Get called for the key now absent starts a new
\* generation.
C36_SurvivesEviction ==
    [][/\ \A c \in Callers, g \in Ids :
            (OwnEviction(g) /\ WaitsOn(c, g) /\ WakesUp(c)) =>
                /\ res'[loc[c].id].data = gens[g].data
                /\ res'[loc[c].id].err = gens[g].err
       /\ \A g \in Ids :
            (OwnEviction(g) /\ gens[g].pc = "done") =>
                chans[heap[gens[g].item].ready].closed
       /\ \A c \in Callers, g \in Ids :
            (OwnEviction(g) /\ WaitsOn(c, g)) => Alive'
       /\ \A k \in Keys :
            (CalledGet(k) /\ \E g \in Ids : OwnEviction(g) /\ gens[g].key = k)
                => \E c \in Callers :
                      pc'[c] = "create" /\ loc'[c].id = ops + 1
       /\ \A c \in Callers :
            (/\ pc[c] = "create" /\ pc'[c] # "create"
             /\ items[loc[c].key] = Nil)
                => /\ gens'[loc[c].id].pc = "run"
                   /\ items'[loc[c].key] = loc[c].id]_vars


\* The done callbacks that have reached the receive from the queue (line 50).
Releasing == {j \in JobIds : jobs[j].pc = "release"}

\* C39 (done never blocks): whenever a done callback is at the receive from
\* the queue, the queue holds a token or is closed, so the receive goes
\* through; and while the pool is open the queue holds exactly one token for
\* each admitted job that has not yet taken its slot back.
C39_DoneNeverBlocks ==
    /\ Releasing # {} => (queue > 0 \/ closed)
    /\ ~closed => queue = Cardinality(Holding)
    /\ queue >= Cardinality(Releasing)

\* An open pool at capacity: two done callbacks are at the receive at the
\* same time, and a further job waits for a slot.
C39_Witness ==
    /\ ~closed /\ queue = Capacity
    /\ Cardinality(Releasing) = 2
    /\ \E j \in JobIds : jobs[j].pc = "send"


\* The jobs whose Submit is waiting for a slot or whose function, or
\* goroutine, is running: done has not been invoked for them.
Unfinished == {j \in JobIds : jobs[j].pc \in {"send", "fn", "work"}}

\* C38 (a blocked Submit is counted): a job holds a unit of the counter from
\* the first statement of its Submit, also while it waits for a slot; so the
\* wg.Wait() of a Wait called on another goroutine does not return, and that
\* Wait does not close the pool, while a job whose Submit began before the
\* Wait is still waiting for a slot or running.
C38_WaitCountsBlocked ==
    [][/\ wg >= Cardinality(Unfinished)
       /\ (main.pc = "wait" /\ main'.pc # "wait")
              => main.before \cap Unfinished = {}
       /\ (main.call = "Wait" /\ ~closed /\ closed')
              => main.before \cap Unfinished = {}]_vars

\* Wait is blocked in wg.Wait() by nothing but a Submit that began before it
\* and waits for a slot: the pool is full of jobs that are past wg.Done.
C38_Witness ==
    /\ main.pc = "wait" /\ ~closed
    /\ queue = Capacity /\ wg = 1
    /\ \E j \in main.before : jobs[j].pc = "send"


\* C37 (pool liveness): when every admitted job invokes done once and Close
\* is not called before the last Submit has returned, every Submit call that
\* has begun returns, and a Wait called after the last Submit returns, with
\* the pool closed.
C37_PoolLive ==
    /\ \A s \in Submitters : (sub[s] # 0) ~> (sub[s] = 0)
    /\ (main.call = "Wait" /\ main.pc = "wait")
          ~> (main.pc = "idle" /\ main.waited /\ closed)

\* More jobs than the capacity were submitted, one of each of three kinds at
\* least, every Submit has returned and Wait has returned on the closed pool.
C37_Witness ==
    /\ njobs = MaxJobs /\ MaxJobs > Capacity
    /\ \A s \in Submitters : sub[s] = 0
    /\ main.pc = "idle" /\ main.waited /\ closed
    /\ \E i, j, k \in JobIds :
          /\ ~jobs[i].sync
          /\ jobs[j].sync /\ ~jobs[j].calls
          /\ jobs[k].sync /\ jobs[k].calls


\* The number of attempts opts.Attempts asks for, and the number a Query can
\* make: one attempt is made whatever opts.Attempts is.
Asked == IF query.given = 0 THEN DefaultAttempts ELSE query.given
AtMost == IF Asked < 1 THEN 1 ELSE Asked

\* What Query has returned: the response of the first attempt that succeeded,
\* which is the last one made, or the error of the last attempt when all the
\* n attempts failed.
Returned(n) ==
    query.pc = "done" =>
        /\ query.made >= 1
        /\ IF query.err = 0
           THEN /\ query.whois = Response(query.made)
                /\ query.failed = query.made - 1
           ELSE /\ query.whois = 0
                /\ query.err = HandlerError(query.made)
                /\ query.failed = query.made
                /\ query.made = n

\* C40 (WHOIS retry) as stated: Query makes at most opts.Attempts attempts
\* (5 when Attempts is zero), returns the first successful response without
\* a further attempt, returns the error of the last attempt when all
\* opts.Attempts attempts fail, and terminates.
C40_AtMostAttempts ==
    /\ []((query.pc = "done" => query.made <= Asked) /\ Returned(Asked))
    /\ <>(query.pc = "done")

\* C40 (WHOIS retry), amended: Query makes at least one attempt and at most
\* max(1, opts.Attempts) of them (5 when Attempts is zero), returns the first
\* successful response without a further attempt, returns the error of the
\* last attempt when all of these attempts fail, and terminates.
C40_QueryRetry ==
    /\ [](query.made <= AtMost /\ Returned(AtMost))
    /\ <>(query.pc = "done")

\* Query was called with Attempts = 0, five attempts failed, and it returned
\* the error of the fifth.
C40_Witness ==
    /\ query.pc = "done" /\ query.given = 0
    /\ query.made = DefaultAttempts /\ query.failed = DefaultAttempts
    /\ query.err = HandlerError(DefaultAttempts)
====
